---------------------------- MODULE Spec2Model ----------------------------
(***************************************************************************)
(* State-machine model of server.js: the two storage engines behind the    *)
(* db handle, the identity handlers (/register, /signup, /login) and the   *)
(* resource handlers (create, list-by-owner, update-by-id, delete-by-id).  *)
(***************************************************************************)
EXTENDS Integers, Sequences, FiniteSets, TLC

(***************************************************************************)
(* Bounds of the model.                                                    *)
(***************************************************************************)
\* longest password text a request carries
MaxPwLen == 6
\* number of bcrypt.hash calls (each draws a fresh salt) in one behaviour
MaxHashes == 2
\* number of write requests to the resource routes in one behaviour
MaxOps == 3

(***************************************************************************)
(* JavaScript values.  A request field is undefined when the JSON body     *)
(* omits it; strings are sequences of one-character strings.               *)
(***************************************************************************)
Undefined == [t |-> "undefined"]
Null == [t |-> "null"]
Str(s) == [t |-> "string", v |-> s]
Num(n) == [t |-> "number", v |-> n]
Bool(b) == [t |-> "boolean", v |-> b]

IsString(x) == x.t = "string"

\* ToBoolean: undefined, null, "", 0 and false are falsy
Truthy(x) ==
    CASE x.t = "undefined" -> FALSE
      [] x.t = "null" -> FALSE
      [] x.t = "string" -> x.v # <<>>
      [] x.t = "number" -> x.v # 0
      [] x.t = "boolean" -> x.v
      [] x.t = "array" -> TRUE

\* a || d
OrDefault(x, d) == IF Truthy(x) THEN x ELSE d

\* String.prototype.toLowerCase on the characters the requests use
LowerChar(c) == IF c = "A" THEN "a" ELSE c
ToLowerCase(s) == [i \in 1..Len(s) |-> LowerChar(s[i])]

\* String.prototype.trim
RECURSIVE TrimStart(_)
TrimStart(s) == IF s # <<>> /\ Head(s) = " " THEN TrimStart(Tail(s)) ELSE s
RECURSIVE TrimEnd(_)
TrimEnd(s) ==
    IF s # <<>> /\ s[Len(s)] = " " THEN TrimEnd(SubSeq(s, 1, Len(s) - 1)) ELSE s
Trim(s) == TrimEnd(TrimStart(s))

\* email.toLowerCase().trim()
NormalizeEmail(s) == Trim(ToLowerCase(s))

(***************************************************************************)
(* Request inputs.                                                         *)
(***************************************************************************)
PwChars == {"p", "q"}
Rep(c, n) == [i \in 1..n |-> c]

\* email texts: empty, blank, and spellings of "a" and of "b" that differ in
\* case and in surrounding blanks
EmailStrings ==
    {<<>>, <<" ">>, <<"a">>, <<"A">>, <<" ", "a">>, <<"A", " ">>, <<"b">>}
\* password texts: empty, one character short of the minimum, and from the
\* minimum length up to MaxPwLen
PwLens == {0, 5} \cup 6..MaxPwLen
PasswordStrings == {Rep(c, n) : c \in PwChars, n \in PwLens}
\* a body field may be omitted, a string, or a JSON value of another type
EmailInputs == {Undefined, Num(7)} \cup {Str(s) : s \in EmailStrings}
PasswordInputs == {Undefined, Num(7)} \cup {Str(s) : s \in PasswordStrings}

(***************************************************************************)
(* State.                                                                  *)
(***************************************************************************)
VARIABLES
    engine,      \* "sqlite" or "pg": the branch taken at server.js:14
    users,       \* rows of table users: [id, email, password]
    userSeq,     \* last id the users table's key generator handed out
    salts,       \* number of salts bcrypt has drawn so far
    plain,       \* history: user id -> the password text it registered with
    tables,      \* table name -> its rows
    seqs,        \* table name -> last id its key generator handed out
    now,         \* the last clock reading a handler took
    ops,         \* number of write requests made so far
    family,      \* the resource family the run's requests address
    route,       \* the route of the last request
    req,         \* the last resource request: its body, its :id, its :email
    calls,       \* the requests whose steps other requests may come between
    resp         \* the response to the last request

vars ==
    <<engine, users, userSeq, salts, plain, tables, seqs, now, ops, family,
      route, req, calls, resp>>

Engines == {"sqlite", "pg"}

(***************************************************************************)
(* bcryptjs: a salted one-way hash.  hash draws a fresh salt; compare      *)
(* re-hashes the candidate with the stored salt.                           *)
(***************************************************************************)
BcryptHash(pw, salt) == <<"bcrypt", salt, pw>>
BcryptCompare(pw, hash) == BcryptHash(pw, hash[2]) = hash

(***************************************************************************)
(* Persistence adapter: errors and db.run on the users table.              *)
(***************************************************************************)
NoError == [t |-> "null"]
\* a uniqueness violation as each engine raises it
UniqueViolation(eng) ==
    IF eng = "sqlite"
    THEN [t |-> "error", code |-> "SQLITE_CONSTRAINT", unique |-> TRUE,
          exists |-> FALSE]
    ELSE [t |-> "error", code |-> "23505", unique |-> FALSE, exists |-> FALSE]

\* the PostgreSQL wrapper's catch: column-exists and "already exists" errors
\* are reported to the callback as success
PgSwallows(err) == err.code = "42701" \/ err.exists

\* what db.run hands to its callback: this.lastID, this.changes and err
RunResult(eng, err, id, changes) ==
    IF eng = "sqlite"
    THEN IF err.t = "error"
         THEN [err |-> err, lastID |-> Null, changes |-> 0]
         ELSE [err |-> NoError, lastID |-> Num(id), changes |-> changes]
    ELSE IF err.t = "error"
         THEN [err |-> IF PgSwallows(err) THEN NoError ELSE err,
               lastID |-> Null, changes |-> 0]
         ELSE [err |-> NoError, lastID |-> Null, changes |-> changes]

(***************************************************************************)
(* Table users: id INTEGER PRIMARY KEY AUTOINCREMENT, email TEXT UNIQUE,   *)
(* password TEXT.  The outcome of INSERT INTO users (email, password).     *)
(***************************************************************************)
EmailTaken(us, email) == \E u \in us : u.email = email

\* an INSERT into a users table without UNIQUE on email
UsersInsertNoUnique(eng, us, seq, email, hash) ==
    [users |-> us \cup {[id |-> seq + 1, email |-> email, password |-> hash]},
     seq |-> seq + 1,
     res |-> RunResult(eng, NoError, seq + 1, 1)]

UsersInsert(eng, us, seq, email, hash) ==
    IF EmailTaken(us, email)
    THEN [users |-> us,
          \* a SERIAL column draws its value before the constraint is checked
          seq |-> IF eng = "pg" THEN seq + 1 ELSE seq,
          res |-> RunResult(eng, UniqueViolation(eng), 0, 0)]
    ELSE [users |-> us \cup {[id |-> seq + 1, email |-> email, password |-> hash]},
          seq |-> seq + 1,
          res |-> RunResult(eng, NoError, seq + 1, 1)]

(***************************************************************************)
(* Responses.                                                              *)
(***************************************************************************)
Json(status, body) == [status |-> status, body |-> body]
NoResponse == Json(0, [none |-> TRUE])

RequiredResponse ==
    Json(400, [success |-> FALSE, message |-> "Email and password are required."])
TooShortResponse ==
    Json(400, [success |-> FALSE,
               message |-> "Password must be at least 6 characters long."])
UserExistsResponse ==
    Json(400, [success |-> FALSE, message |-> "User already exists."])
CreateFailedResponse ==
    Json(500, [success |-> FALSE, message |-> "Failed to create user."])
SignupErrorResponse ==
    Json(500, [success |-> FALSE, message |-> "Server error during signup."])
CreatedResponse(id, email) ==
    Json(200, [success |-> TRUE, id |-> id, email |-> email,
               message |-> "Account created successfully!"])
InvalidCredentialsResponse ==
    Json(400, [success |-> FALSE, message |-> "Invalid credentials."])
LoginFailedResponse ==
    Json(500, [success |-> FALSE, message |-> "Login failed."])
LoginOkResponse(email) ==
    Json(200, [success |-> TRUE, email |-> email, message |-> "Login successful!"])
\* the error middleware that answers a handler's synchronous throw
InternalErrorResponse == Json(500, [error |-> "Internal server error"])

(***************************************************************************)
(* POST /register and POST /signup.                                        *)
(***************************************************************************)
MinPasswordLen == 6

PasswordTooShortOffByOne(password) ==
    IsString(password) /\ Len(password.v) < MinPasswordLen - 1
\* password.length < 6; a non-string has no length and the test is false
PasswordTooShort(password) ==
    IsString(password) /\ Len(password.v) < MinPasswordLen

\* the err branch of the insert callback
IsUniqueError(err) == err.unique \/ err.code = "23505"

\* the store part of the state, as the handlers read and write it
Store(us, seq, sl, pl) == [users |-> us, userSeq |-> seq, salts |-> sl, plain |-> pl]

\* a handler outcome: its response, the store it leaves, and whether it
\* issued a storage statement
Outcome(r, st, issued) == [resp |-> r, store |-> st, issued |-> issued]

RegisterEmailKey(email) == NormalizeEmail(email.v)

RegisterOutcome(eng, st, email, password) ==
    IF ~Truthy(email) \/ ~Truthy(password)
    THEN Outcome(RequiredResponse, st, FALSE)
    ELSE IF PasswordTooShort(password)
    THEN Outcome(TooShortResponse, st, FALSE)
    ELSE IF ~IsString(password)
    \* bcrypt.hash rejects a non-string: the catch block answers
    THEN Outcome(SignupErrorResponse, st, FALSE)
    ELSE LET salted == [st EXCEPT !.salts = @ + 1]
             hash == BcryptHash(password.v, salted.salts)
         IN IF ~IsString(email)
            \* email.toLowerCase is not a function: the catch block answers
            THEN Outcome(SignupErrorResponse, salted, FALSE)
            ELSE LET ins == UsersInsert(eng, st.users, st.userSeq,
                                        RegisterEmailKey(email), hash)
                     err == ins.res.err
                 IN IF err.t = "error"
                    THEN Outcome(IF IsUniqueError(err) THEN UserExistsResponse
                                 ELSE CreateFailedResponse,
                                 [salted EXCEPT !.userSeq = ins.seq], TRUE)
                    ELSE Outcome(
                           CreatedResponse(ins.res.lastID, Str(RegisterEmailKey(email))),
                           [salted EXCEPT !.users = ins.users, !.userSeq = ins.seq,
                                          !.plain = [i \in DOMAIN @ \cup {ins.seq} |->
                                                       IF i = ins.seq THEN password.v
                                                       ELSE @[i]]],
                           TRUE)

SignupEmailKeyNoTrim(email) == ToLowerCase(email.v)
SignupEmailKey(email) == NormalizeEmail(email.v)

SignupOutcome(eng, st, email, password) ==
    IF ~Truthy(email) \/ ~Truthy(password)
    THEN Outcome(RequiredResponse, st, FALSE)
    ELSE IF PasswordTooShort(password)
    THEN Outcome(TooShortResponse, st, FALSE)
    ELSE IF ~IsString(password)
    THEN Outcome(SignupErrorResponse, st, FALSE)
    ELSE LET salted == [st EXCEPT !.salts = @ + 1]
             hash == BcryptHash(password.v, salted.salts)
         IN IF ~IsString(email)
            THEN Outcome(SignupErrorResponse, salted, FALSE)
            ELSE LET ins == UsersInsert(eng, st.users, st.userSeq,
                                        SignupEmailKey(email), hash)
                     err == ins.res.err
                 IN IF err.t = "error"
                    THEN Outcome(IF IsUniqueError(err) THEN UserExistsResponse
                                 ELSE CreateFailedResponse,
                                 [salted EXCEPT !.userSeq = ins.seq], TRUE)
                    ELSE Outcome(
                           CreatedResponse(ins.res.lastID, Str(SignupEmailKey(email))),
                           [salted EXCEPT !.users = ins.users, !.userSeq = ins.seq,
                                          !.plain = [i \in DOMAIN @ \cup {ins.seq} |->
                                                       IF i = ins.seq THEN password.v
                                                       ELSE @[i]]],
                           TRUE)

(***************************************************************************)
(* POST /login.                                                            *)
(***************************************************************************)
\* if (!row)
UnknownEmailLeaky == Json(404, [success |-> FALSE, message |-> "User not found."])
UnknownEmailResponse == InvalidCredentialsResponse
\* if (!passwordMatch)
WrongPasswordResponse == InvalidCredentialsResponse

\* db.get("SELECT * FROM users WHERE email = ?"): the row, or none
UsersGet(us, email) ==
    IF EmailTaken(us, email)
    THEN {CHOOSE u \in us : u.email = email}
    ELSE {}

LoginResponse(us, email, password) ==
    IF ~Truthy(email) \/ ~Truthy(password)
    THEN RequiredResponse
    ELSE IF ~IsString(email)
    \* email.toLowerCase throws outside any try block
    THEN InternalErrorResponse
    ELSE LET found == UsersGet(us, NormalizeEmail(email.v))
         IN IF found = {}
            THEN UnknownEmailResponse
            ELSE LET row == CHOOSE u \in found : TRUE
                 IN IF ~IsString(password)
                    \* bcrypt.compare rejects a non-string: the catch block answers
                    THEN LoginFailedResponse
                    ELSE IF ~BcryptCompare(password.v, row.password)
                    THEN WrongPasswordResponse
                    ELSE LoginOkResponse(Str(row.email))

(***************************************************************************)
(* Resource values.  A text a handler only passes on is kept as a single   *)
(* symbol; new Date().toISOString() at clock reading n is Time(n).         *)
(***************************************************************************)
Text(s) == Str(<<s>>)
EmptyText == Str(<<>>)
Time(n) == [t |-> "string", v |-> <<"T">>, at |-> n]
OwnerA == Str(<<"a">>)
OwnerB == Str(<<"b">>)

\* a statement parameter as the driver binds it: undefined is sent as NULL
Bind(v) == IF v = Undefined THEN Null ELSE v

(***************************************************************************)
(* Schema (server.js:88-333): the columns of each table besides id, the    *)
(* DEFAULT of each column, and the column a list route filters on.         *)
(***************************************************************************)
Tables ==
    {"projects", "colleagues", "meetings", "ideas", "notes", "career_goals",
     "future_work", "deadlines", "calendar_events", "profiles"}

\* of the 28 description columns of projects, project_title and notes stand
\* for all: PUT /projects/:id/description writes the 28 in one statement
Cols(k) ==
    CASE k = "projects" ->
           {"name", "owner_email", "colleagues", "progress", "project_title", "notes"}
      [] k = "colleagues" -> {"project_id", "name", "email"}
      [] k = "meetings" -> {"colleague_email", "date", "description"}
      [] k = "ideas" -> {"user_email", "title", "content", "category", "created_date"}
      [] k = "notes" -> {"user_email", "title", "content", "created_date"}
      [] k = "career_goals" ->
           {"user_email", "title", "description", "progress", "goal_type",
            "target_date", "created_date", "total_stages", "current_stage",
            "start_date", "stage_description"}
      [] k = "future_work" ->
           {"user_email", "title", "description", "priority", "timeline",
            "created_date"}
      [] k = "deadlines" ->
           {"user_email", "title", "description", "due_date", "priority", "status",
            "created_date"}
      [] k = "calendar_events" ->
           {"user_email", "title", "description", "event_date", "start_time",
            "end_time", "location", "category", "attendees", "reminder",
            "is_all_day", "recurrence", "recurrence_end", "show_as", "priority",
            "is_online", "meeting_link", "attachments", "repeat_weekly",
            "created_date", "modified_date"}
      \* full_name stands for the fifteen text columns of a profile, degrees
      \* for its five columns that hold a serialized list
      [] k = "profiles" ->
           {"user_email", "full_name", "degrees", "created_date", "modified_date"}

ColumnDefault(k, c) ==
    CASE k = "projects" /\ c = "colleagues" -> Text("[]")
      [] k = "projects" /\ c = "progress" -> Num(0)
      [] k = "ideas" /\ c = "category" -> Text("general")
      [] k = "career_goals" /\ c = "progress" -> Num(0)
      [] k = "career_goals" /\ c = "goal_type" -> Text("general")
      [] k = "career_goals" /\ c = "total_stages" -> Num(5)
      [] k = "career_goals" /\ c = "current_stage" -> Num(0)
      [] k = "future_work" /\ c = "priority" -> Text("medium")
      [] k = "deadlines" /\ c = "priority" -> Text("medium")
      [] k = "deadlines" /\ c = "status" -> Text("pending")
      [] k = "calendar_events" /\ c = "category" -> Text("Work")
      [] k = "calendar_events" /\ c = "reminder" -> Num(15)
      [] k = "calendar_events" /\ c = "is_all_day" -> Num(0)
      [] k = "calendar_events" /\ c = "recurrence" -> Text("none")
      [] k = "calendar_events" /\ c = "show_as" -> Text("busy")
      [] k = "calendar_events" /\ c = "priority" -> Text("normal")
      [] k = "calendar_events" /\ c = "is_online" -> Num(0)
      [] k = "calendar_events" /\ c = "repeat_weekly" -> Num(0)
      [] OTHER -> Null

OwnerCol(k) ==
    CASE k = "projects" -> "owner_email"
      [] k = "meetings" -> "colleague_email"
      [] k = "colleagues" -> "email"
      [] OTHER -> "user_email"

\* the tables declared with FOREIGN KEY(user_email) REFERENCES users(email)
HasUserFk(k) ==
    k \in {"ideas", "notes", "career_goals", "future_work", "deadlines",
           "calendar_events", "profiles"}

\* PostgreSQL enforces the reference; SQLite, with its foreign_keys pragma
\* left off, does not
ForeignKeyViolation ==
    [t |-> "error", code |-> "23503", unique |-> FALSE, exists |-> FALSE]

\* the columns declared INTEGER
IntegerCols(k) ==
    CASE k = "projects" -> {"progress"}
      [] k = "colleagues" -> {"project_id"}
      [] k = "career_goals" -> {"progress", "total_stages", "current_stage"}
      [] k = "calendar_events" ->
           {"reminder", "is_all_day", "is_online", "repeat_weekly"}
      [] OTHER -> {}

\* PostgreSQL refuses a text parameter for an INTEGER column and quotes the
\* text in the message (invalid input syntax for type integer: "..."), so
\* the message holds 'already exists' when the text does; SQLite stores the
\* text
InvalidInteger(v) ==
    [t |-> "error", code |-> "22P02", unique |-> FALSE,
     exists |-> v = Text("already exists")]
Mistyped(eng, k, params) ==
    {c \in IntegerCols(k) \cap DOMAIN params :
        eng = "pg" /\ Bind(params[c]).t = "string"}

(***************************************************************************)
(* Statements.  d is the database: d.tables maps a table to its rows,      *)
(* d.seqs to the last id its key generator handed out.                     *)
(***************************************************************************)
Database(tbls, sq) == [tables |-> tbls, seqs |-> sq]
StatementResult(d, res) == [db |-> d, res |-> res]

\* INSERT INTO k (DOMAIN params) VALUES (params)
SqlInsert(eng, us, d, k, params) ==
    LET id == d.seqs[k] + 1
        row == [c \in Cols(k) \cup {"id"} |->
                  IF c = "id" THEN id
                  ELSE IF c \in DOMAIN params THEN Bind(params[c])
                  ELSE ColumnDefault(k, c)]
        orphan == /\ eng = "pg"
                  /\ HasUserFk(k)
                  /\ row.user_email # Null
                  /\ ~EmailTaken(us, row.user_email.v)
    IN IF Mistyped(eng, k, params) # {}
       THEN StatementResult(d,
              RunResult(eng,
                        InvalidInteger(params[CHOOSE c \in Mistyped(eng, k, params) :
                                                TRUE]),
                        0, 0))
       ELSE IF orphan
       THEN StatementResult([d EXCEPT !.seqs[k] = id],
                            RunResult(eng, ForeignKeyViolation, 0, 0))
       ELSE StatementResult([d EXCEPT !.seqs[k] = id, !.tables[k] = @ \cup {row}],
                            RunResult(eng, NoError, id, 1))

\* UPDATE k SET (DOMAIN params) = (params) WHERE id = ?
SqlUpdate(eng, d, k, id, params) ==
    LET hit == {r \in d.tables[k] : r.id = id}
        set(r) == [c \in DOMAIN r |->
                     IF c \in DOMAIN params THEN Bind(params[c]) ELSE r[c]]
    IN IF Mistyped(eng, k, params) # {}
       THEN StatementResult(d,
              RunResult(eng,
                        InvalidInteger(params[CHOOSE c \in Mistyped(eng, k, params) :
                                                TRUE]),
                        0, 0))
       ELSE StatementResult(
              [d EXCEPT !.tables[k] = (@ \ hit) \cup {set(r) : r \in hit}],
              RunResult(eng, NoError, 0, Cardinality(hit)))

\* DELETE FROM k, the WHERE clause lost
SqlDeleteEveryRow(eng, d, k, id) ==
    StatementResult([d EXCEPT !.tables[k] = {}],
                    RunResult(eng, NoError, 0, Cardinality(d.tables[k])))

\* DELETE FROM k WHERE id = ?
SqlDelete(eng, d, k, id) ==
    LET hit == {r \in d.tables[k] : r.id = id}
    IN StatementResult([d EXCEPT !.tables[k] = @ \ hit],
                       RunResult(eng, NoError, 0, Cardinality(hit)))

\* a SELECT without its WHERE clause
SqlSelectEveryOwner(d, k, email) == d.tables[k]

\* SELECT * FROM k WHERE <owner column> = ?: the matching rows
SqlSelect(d, k, email) == {r \in d.tables[k] : r[OwnerCol(k)] = email}

(***************************************************************************)
(* ORDER BY.  Texts compare as strings: the empty text first, a timestamp  *)
(* ("2...") before the caller's texts, those in alphabetical order.  NULL  *)
(* sorts before every text in SQLite and after every text in PostgreSQL.   *)
(***************************************************************************)
SortKey(eng, v) ==
    CASE v = Null -> IF eng = "sqlite" THEN 0 ELSE 1000
      [] v = EmptyText -> 1
      [] "at" \in DOMAIN v -> 10 + v.at
      [] v = Text("d") -> 500
      [] v = Text("x") -> 501
      [] OTHER -> 502

\* the sequences that hold each row of rows once
Listings(rows) ==
    {s \in [1..Cardinality(rows) -> rows] : \A i, j \in DOMAIN s : i # j => s[i] # s[j]}

\* ORDER BY col ASC / DESC, an order among equal keys being any
Ascending(eng, s, col) ==
    \A i, j \in DOMAIN s : i < j => SortKey(eng, s[i][col]) <= SortKey(eng, s[j][col])
Descending(eng, s, col) ==
    \A i, j \in DOMAIN s : i < j => SortKey(eng, s[i][col]) >= SortKey(eng, s[j][col])

(***************************************************************************)
(* Handler outcomes: the response and the database the handler leaves.     *)
(***************************************************************************)
Handled(r, d) == [resp |-> r, db |-> d]
ErrorResponse(status, msg) == Json(status, [error |-> msg])

\* a request: req.body, req.params.id, req.params.email
NoBody == <<>>
Request(body, id, email) == [body |-> body, id |-> id, email |-> email]
NoRequest == Request(NoBody, 0, Undefined)

\* a request body: the fields the handler destructures, omitted ones undefined
Field(body, f) == IF f \in DOMAIN body THEN body[f] ELSE Undefined

(***************************************************************************)
(* Projects (server.js:459-507, 534-566).                                  *)
(***************************************************************************)
CreateProject(eng, us, d, body) ==
    LET name == Field(body, "name")
        owner_email == Field(body, "owner_email")
        colleagues == Field(body, "colleagues")
        progress == Field(body, "progress")
    IN IF ~Truthy(name) \/ ~Truthy(owner_email)
       THEN Handled(ErrorResponse(400, "Project name and owner email are required."), d)
       ELSE LET st == SqlInsert(eng, us, d, "projects",
                        [name |-> name, owner_email |-> owner_email,
                         colleagues |-> OrDefault(colleagues, Text("[]")),
                         progress |-> OrDefault(progress, Num(0))])
            IN IF st.res.err.t = "error"
               THEN Handled(ErrorResponse(500, "Error creating project."), st.db)
               ELSE Handled(Json(200, [id |-> st.res.lastID, name |-> name,
                                       owner_email |-> owner_email,
                                       colleagues |-> colleagues,
                                       progress |-> OrDefault(progress, Num(0))]),
                            st.db)

\* PUT /projects/:id without the fallback of progress to 0
UpdateProjectNoFallback(eng, d, id, body) ==
    LET st == SqlUpdate(eng, d, "projects", id,
                [name |-> Field(body, "name"),
                 colleagues |-> Field(body, "colleagues"),
                 progress |-> Field(body, "progress")])
    IN IF st.res.err.t = "error"
       THEN Handled(ErrorResponse(500, "Error updating project."), st.db)
       ELSE Handled(Json(200, [updated |-> st.res.changes]), st.db)

UpdateProject(eng, d, id, body) ==
    LET progress == Field(body, "progress")
        st == SqlUpdate(eng, d, "projects", id,
                [name |-> Field(body, "name"),
                 colleagues |-> Field(body, "colleagues"),
                 progress |-> IF progress # Undefined THEN progress ELSE Num(0)])
    IN IF st.res.err.t = "error"
       THEN Handled(ErrorResponse(500, "Error updating project."), st.db)
       ELSE Handled(Json(200, [updated |-> st.res.changes]), st.db)

DeleteProject(eng, d, id) ==
    LET st == SqlDelete(eng, d, "projects", id)
    IN IF st.res.err.t = "error"
       THEN Handled(ErrorResponse(500, "Error deleting project."), st.db)
       ELSE Handled(Json(200, [deleted |-> st.res.changes]), st.db)

UpdateProjectDescription(eng, d, id, body) ==
    LET st == SqlUpdate(eng, d, "projects", id,
                [project_title |-> Field(body, "projectTitle"),
                 notes |-> Field(body, "notes")])
    IN IF st.res.err.t = "error"
       THEN Handled(ErrorResponse(500, "Error updating description."), st.db)
       ELSE Handled(Json(200, [updated |-> st.res.changes]), st.db)

(***************************************************************************)
(* Ideas (server.js:569-606).                                              *)
(***************************************************************************)
CreateIdea(eng, us, d, body, clock) ==
    LET user_email == Field(body, "user_email")
        title == Field(body, "title")
        content == Field(body, "content")
        category == Field(body, "category")
        date == OrDefault(Field(body, "created_date"), Time(clock))
        st == SqlInsert(eng, us, d, "ideas",
                [user_email |-> user_email, title |-> title, content |-> content,
                 category |-> OrDefault(category, Text("general")),
                 created_date |-> date])
    IN IF st.res.err.t = "error"
       THEN Handled(ErrorResponse(500, "Error creating idea."), st.db)
       ELSE Handled(Json(200, [id |-> st.res.lastID, user_email |-> user_email,
                               title |-> title, content |-> content,
                               category |-> category, created_date |-> date]),
                    st.db)

UpdateIdea(eng, d, id, body) ==
    LET st == SqlUpdate(eng, d, "ideas", id,
                [title |-> Field(body, "title"), content |-> Field(body, "content"),
                 category |-> Field(body, "category")])
    IN IF st.res.err.t = "error"
       THEN Handled(ErrorResponse(500, "Error updating idea."), st.db)
       ELSE Handled(Json(200, [updated |-> st.res.changes]), st.db)

DeleteIdea(eng, d, id) ==
    LET st == SqlDelete(eng, d, "ideas", id)
    IN IF st.res.err.t = "error"
       THEN Handled(ErrorResponse(500, "Error deleting idea."), st.db)
       ELSE Handled(Json(200, [deleted |-> st.res.changes]), st.db)

(***************************************************************************)
(* Meetings (server.js:510-531).                                           *)
(***************************************************************************)
CreateMeeting(eng, us, d, body) ==
    LET colleague_email == Field(body, "colleague_email")
        date == Field(body, "date")
        description == Field(body, "description")
        st == SqlInsert(eng, us, d, "meetings",
                [colleague_email |-> colleague_email, date |-> date,
                 description |-> description])
    IN IF st.res.err.t = "error"
       THEN Handled(ErrorResponse(500, "Error creating meeting."), st.db)
       ELSE Handled(Json(200, [id |-> st.res.lastID,
                               colleague_email |-> colleague_email,
                               date |-> date, description |-> description]),
                    st.db)

(***************************************************************************)
(* Notes (server.js:609-646).                                              *)
(***************************************************************************)
CreateNote(eng, us, d, body, clock) ==
    LET user_email == Field(body, "user_email")
        title == Field(body, "title")
        content == Field(body, "content")
        date == OrDefault(Field(body, "created_date"), Time(clock))
        st == SqlInsert(eng, us, d, "notes",
                [user_email |-> user_email, title |-> title, content |-> content,
                 created_date |-> date])
    IN IF st.res.err.t = "error"
       THEN Handled(ErrorResponse(500, "Error creating note."), st.db)
       ELSE Handled(Json(200, [id |-> st.res.lastID, user_email |-> user_email,
                               title |-> title, content |-> content,
                               created_date |-> date]),
                    st.db)

UpdateNote(eng, d, id, body) ==
    LET st == SqlUpdate(eng, d, "notes", id,
                [title |-> Field(body, "title"), content |-> Field(body, "content")])
    IN IF st.res.err.t = "error"
       THEN Handled(ErrorResponse(500, "Error updating note."), st.db)
       ELSE Handled(Json(200, [updated |-> st.res.changes]), st.db)

DeleteNote(eng, d, id) ==
    LET st == SqlDelete(eng, d, "notes", id)
    IN IF st.res.err.t = "error"
       THEN Handled(ErrorResponse(500, "Error deleting note."), st.db)
       ELSE Handled(Json(200, [deleted |-> st.res.changes]), st.db)

(***************************************************************************)
(* Career goals (server.js:649-693).                                       *)
(***************************************************************************)
CreateCareerGoal(eng, us, d, body, clock) ==
    LET user_email == Field(body, "user_email")
        title == Field(body, "title")
        description == Field(body, "description")
        progress == Field(body, "progress")
        goal_type == Field(body, "goal_type")
        target_date == Field(body, "target_date")
        total_stages == Field(body, "total_stages")
        current_stage == Field(body, "current_stage")
        start_date == Field(body, "start_date")
        stage_description == Field(body, "stage_description")
        date == OrDefault(Field(body, "created_date"), Time(clock))
        st == SqlInsert(eng, us, d, "career_goals",
                [user_email |-> user_email, title |-> title,
                 description |-> description,
                 progress |-> OrDefault(progress, Num(0)),
                 goal_type |-> OrDefault(goal_type, Text("general")),
                 target_date |-> target_date,
                 total_stages |-> OrDefault(total_stages, Num(5)),
                 current_stage |-> OrDefault(current_stage, Num(0)),
                 start_date |-> start_date,
                 stage_description |-> stage_description,
                 created_date |-> date])
    IN IF st.res.err.t = "error"
       THEN Handled(ErrorResponse(500, "Error creating career goal."), st.db)
       ELSE Handled(Json(200, [id |-> st.res.lastID, user_email |-> user_email,
                               title |-> title, description |-> description,
                               progress |-> progress, goal_type |-> goal_type,
                               target_date |-> target_date,
                               total_stages |-> total_stages,
                               current_stage |-> current_stage,
                               start_date |-> start_date,
                               stage_description |-> stage_description,
                               created_date |-> date]),
                    st.db)

UpdateCareerGoal(eng, d, id, body) ==
    LET st == SqlUpdate(eng, d, "career_goals", id,
                [title |-> Field(body, "title"),
                 description |-> Field(body, "description"),
                 progress |-> Field(body, "progress"),
                 goal_type |-> Field(body, "goal_type"),
                 target_date |-> Field(body, "target_date"),
                 total_stages |-> Field(body, "total_stages"),
                 current_stage |-> Field(body, "current_stage"),
                 start_date |-> Field(body, "start_date"),
                 stage_description |-> Field(body, "stage_description")])
    IN IF st.res.err.t = "error"
       THEN Handled(ErrorResponse(500, "Error updating career goal."), st.db)
       ELSE Handled(Json(200, [updated |-> st.res.changes]), st.db)

DeleteCareerGoal(eng, d, id) ==
    LET st == SqlDelete(eng, d, "career_goals", id)
    IN IF st.res.err.t = "error"
       THEN Handled(ErrorResponse(500, "Error deleting career goal."), st.db)
       ELSE Handled(Json(200, [deleted |-> st.res.changes]), st.db)

(***************************************************************************)
(* Future work (server.js:696-740).                                        *)
(***************************************************************************)
CreateFutureWork(eng, us, d, body, clock) ==
    LET user_email == Field(body, "user_email")
        title == Field(body, "title")
        description == Field(body, "description")
        priority == Field(body, "priority")
        timeline == Field(body, "timeline")
        date == OrDefault(Field(body, "created_date"), Time(clock))
        st == SqlInsert(eng, us, d, "future_work",
                [user_email |-> user_email, title |-> title,
                 description |-> description,
                 priority |-> OrDefault(priority, Text("medium")),
                 timeline |-> timeline, created_date |-> date])
    IN IF st.res.err.t = "error"
       THEN Handled(ErrorResponse(500, "Error creating future work."), st.db)
       ELSE Handled(Json(200, [id |-> st.res.lastID, user_email |-> user_email,
                               title |-> title, description |-> description,
                               priority |-> priority, timeline |-> timeline,
                               created_date |-> date]),
                    st.db)

UpdateFutureWork(eng, d, id, body) ==
    LET st == SqlUpdate(eng, d, "future_work", id,
                [title |-> Field(body, "title"),
                 description |-> Field(body, "description"),
                 priority |-> Field(body, "priority"),
                 timeline |-> Field(body, "timeline")])
    IN IF st.res.err.t = "error"
       THEN Handled(ErrorResponse(500, "Error updating future work."), st.db)
       ELSE Handled(Json(200, [updated |-> st.res.changes]), st.db)

DeleteFutureWork(eng, d, id) ==
    LET st == SqlDelete(eng, d, "future_work", id)
    IN IF st.res.err.t = "error"
       THEN Handled(ErrorResponse(500, "Error deleting future work."), st.db)
       ELSE Handled(Json(200, [deleted |-> st.res.changes]), st.db)

(***************************************************************************)
(* Deadlines (server.js:743-780).                                          *)
(***************************************************************************)
CreateDeadline(eng, us, d, body, clock) ==
    LET user_email == Field(body, "user_email")
        title == Field(body, "title")
        description == Field(body, "description")
        due_date == Field(body, "due_date")
        priority == Field(body, "priority")
        status == Field(body, "status")
        date == OrDefault(Field(body, "created_date"), Time(clock))
        st == SqlInsert(eng, us, d, "deadlines",
                [user_email |-> user_email, title |-> title,
                 description |-> description, due_date |-> due_date,
                 priority |-> OrDefault(priority, Text("medium")),
                 status |-> OrDefault(status, Text("pending")),
                 created_date |-> date])
    IN IF st.res.err.t = "error"
       THEN Handled(ErrorResponse(500, "Error creating deadline."), st.db)
       ELSE Handled(Json(200, [id |-> st.res.lastID, user_email |-> user_email,
                               title |-> title, description |-> description,
                               due_date |-> due_date, priority |-> priority,
                               status |-> status, created_date |-> date]),
                    st.db)

UpdateDeadline(eng, d, id, body) ==
    LET st == SqlUpdate(eng, d, "deadlines", id,
                [title |-> Field(body, "title"),
                 description |-> Field(body, "description"),
                 due_date |-> Field(body, "due_date"),
                 priority |-> Field(body, "priority"),
                 status |-> Field(body, "status")])
    IN IF st.res.err.t = "error"
       THEN Handled(ErrorResponse(500, "Error updating deadline."), st.db)
       ELSE Handled(Json(200, [updated |-> st.res.changes]), st.db)

DeleteDeadline(eng, d, id) ==
    LET st == SqlDelete(eng, d, "deadlines", id)
    IN IF st.res.err.t = "error"
       THEN Handled(ErrorResponse(500, "Error deleting deadline."), st.db)
       ELSE Handled(Json(200, [deleted |-> st.res.changes]), st.db)

(***************************************************************************)
(* Calendar events, /events (server.js:783-863).                           *)
(***************************************************************************)
\* flag ? 1 : 0
Flag(v) == IF Truthy(v) THEN Num(1) ELSE Num(0)

CreateEvent(eng, us, d, body, clock) ==
    LET title == Field(body, "title")
        description == Field(body, "description")
        date == Field(body, "date")
        start == Field(body, "start")
        end == Field(body, "end")
        location == Field(body, "location")
        category == Field(body, "category")
        created_date == Time(clock)
        modified_date == created_date
        st == SqlInsert(eng, us, d, "calendar_events",
                [user_email |-> Field(body, "userEmail"), title |-> title,
                 description |-> description, event_date |-> date,
                 start_time |-> start, end_time |-> end, location |-> location,
                 category |-> OrDefault(category, Text("Work")),
                 attendees |-> Field(body, "attendees"),
                 reminder |-> OrDefault(Field(body, "reminder"), Num(15)),
                 is_all_day |-> Flag(Field(body, "isAllDay")),
                 recurrence |-> OrDefault(Field(body, "recurrence"), Text("none")),
                 recurrence_end |-> Field(body, "recurrenceEnd"),
                 show_as |-> OrDefault(Field(body, "showAs"), Text("busy")),
                 priority |-> OrDefault(Field(body, "priority"), Text("normal")),
                 is_online |-> Flag(Field(body, "isOnline")),
                 meeting_link |-> Field(body, "meetingLink"),
                 attachments |-> Field(body, "attachments"),
                 repeat_weekly |-> Flag(Field(body, "repeatWeekly")),
                 created_date |-> created_date, modified_date |-> modified_date])
    IN IF st.res.err.t = "error"
       THEN Handled(ErrorResponse(500, "Error creating event."), st.db)
       ELSE Handled(Json(200, [id |-> st.res.lastID, title |-> title,
                               description |-> description, date |-> date,
                               start |-> start, end |-> end, location |-> location,
                               category |-> category, created_date |-> created_date]),
                    st.db)

UpdateEvent(eng, d, id, body, clock) ==
    LET modified_date == Time(clock)
        st == SqlUpdate(eng, d, "calendar_events", id,
                [title |-> Field(body, "title"),
                 description |-> Field(body, "description"),
                 event_date |-> Field(body, "date"),
                 start_time |-> Field(body, "start"),
                 end_time |-> Field(body, "end"),
                 location |-> Field(body, "location"),
                 category |-> Field(body, "category"),
                 attendees |-> Field(body, "attendees"),
                 reminder |-> Field(body, "reminder"),
                 is_all_day |-> Flag(Field(body, "isAllDay")),
                 recurrence |-> Field(body, "recurrence"),
                 recurrence_end |-> Field(body, "recurrenceEnd"),
                 show_as |-> Field(body, "showAs"),
                 priority |-> Field(body, "priority"),
                 is_online |-> Flag(Field(body, "isOnline")),
                 meeting_link |-> Field(body, "meetingLink"),
                 attachments |-> Field(body, "attachments"),
                 repeat_weekly |-> Flag(Field(body, "repeatWeekly")),
                 modified_date |-> modified_date])
    IN IF st.res.err.t = "error"
       THEN Handled(ErrorResponse(500, "Error updating event."), st.db)
       ELSE Handled(Json(200, [updated |-> st.res.changes]), st.db)

DeleteEvent(eng, d, id) ==
    LET st == SqlDelete(eng, d, "calendar_events", id)
    IN IF st.res.err.t = "error"
       THEN Handled(ErrorResponse(500, "Error deleting event."), st.db)
       ELSE Handled(Json(200, [deleted |-> st.res.changes]), st.db)

(***************************************************************************)
(* Calendar events, legacy /calendar_events (server.js:866-903).           *)
(***************************************************************************)
CreateCalendarEvent(eng, us, d, body, clock) ==
    LET user_email == Field(body, "user_email")
        title == Field(body, "title")
        description == Field(body, "description")
        event_date == Field(body, "event_date")
        start_time == Field(body, "start_time")
        end_time == Field(body, "end_time")
        repeat_weekly == Field(body, "repeat_weekly")
        date == OrDefault(Field(body, "created_date"), Time(clock))
        st == SqlInsert(eng, us, d, "calendar_events",
                [user_email |-> user_email, title |-> title,
                 description |-> description, event_date |-> event_date,
                 start_time |-> start_time, end_time |-> end_time,
                 repeat_weekly |-> repeat_weekly, created_date |-> date])
    IN IF st.res.err.t = "error"
       THEN Handled(ErrorResponse(500, "Error creating event."), st.db)
       ELSE Handled(Json(200, [id |-> st.res.lastID, user_email |-> user_email,
                               title |-> title, description |-> description,
                               event_date |-> event_date, start_time |-> start_time,
                               end_time |-> end_time, repeat_weekly |-> repeat_weekly,
                               created_date |-> date]),
                    st.db)

UpdateCalendarEvent(eng, d, id, body) ==
    LET st == SqlUpdate(eng, d, "calendar_events", id,
                [title |-> Field(body, "title"),
                 description |-> Field(body, "description"),
                 event_date |-> Field(body, "event_date"),
                 start_time |-> Field(body, "start_time"),
                 end_time |-> Field(body, "end_time"),
                 repeat_weekly |-> Field(body, "repeat_weekly")])
    IN IF st.res.err.t = "error"
       THEN Handled(ErrorResponse(500, "Error updating event."), st.db)
       ELSE Handled(Json(200, [updated |-> st.res.changes]), st.db)

DeleteCalendarEvent(eng, d, id) ==
    LET st == SqlDelete(eng, d, "calendar_events", id)
    IN IF st.res.err.t = "error"
       THEN Handled(ErrorResponse(500, "Error deleting event."), st.db)
       ELSE Handled(Json(200, [deleted |-> st.res.changes]), st.db)

(***************************************************************************)
(* List routes.  Each yields the set of listings the statement may return: *)
(* rows with equal sort keys, and rows of a statement without ORDER BY,    *)
(* come in any order.                                                      *)
(***************************************************************************)
ListProjects(eng, d, email) == Listings(SqlSelect(d, "projects", email))
ListMeetings(eng, d, email) == Listings(SqlSelect(d, "meetings", email))
ListIdeas(eng, d, email) ==
    {s \in Listings(SqlSelect(d, "ideas", email)) : Descending(eng, s, "created_date")}
ListNotes(eng, d, email) ==
    {s \in Listings(SqlSelect(d, "notes", email)) : Descending(eng, s, "created_date")}
ListCareerGoals(eng, d, email) ==
    {s \in Listings(SqlSelect(d, "career_goals", email)) :
        Descending(eng, s, "created_date")}
\* GET /career/:email
ListCareer(eng, d, email) ==
    {s \in Listings(SqlSelect(d, "career_goals", email)) :
        Descending(eng, s, "created_date")}
ListFutureWork(eng, d, email) ==
    {s \in Listings(SqlSelect(d, "future_work", email)) :
        Descending(eng, s, "created_date")}
\* GET /future/:email
ListFuture(eng, d, email) ==
    {s \in Listings(SqlSelect(d, "future_work", email)) :
        Descending(eng, s, "created_date")}
ListDeadlines(eng, d, email) ==
    {s \in Listings(SqlSelect(d, "deadlines", email)) : Ascending(eng, s, "due_date")}
\* GET /calendar_events/:email
ListCalendarEvents(eng, d, email) ==
    {s \in Listings(SqlSelect(d, "calendar_events", email)) :
        Ascending(eng, s, "event_date")}

\* ORDER BY event_date ASC, start_time ASC
EventOrder(eng, s) ==
    \A i, j \in DOMAIN s : i < j =>
        \/ SortKey(eng, s[i].event_date) < SortKey(eng, s[j].event_date)
        \/ /\ SortKey(eng, s[i].event_date) = SortKey(eng, s[j].event_date)
           /\ SortKey(eng, s[i].start_time) <= SortKey(eng, s[j].start_time)

\* the name under which the engine returns a column selected "AS alias":
\* PostgreSQL folds an unquoted alias to lower case
AliasKey(eng, alias) ==
    IF eng = "sqlite" THEN alias
    ELSE CASE alias = "isAllDay" -> "isallday"
           [] alias = "recurrenceEnd" -> "recurrenceend"
           [] alias = "showAs" -> "showas"
           [] alias = "isOnline" -> "isonline"
           [] alias = "meetingLink" -> "meetinglink"
           [] alias = "repeatWeekly" -> "repeatweekly"
           [] alias = "createdDate" -> "createddate"
           [] alias = "modifiedDate" -> "modifieddate"
           [] OTHER -> alias

\* the select list of GET /events/:email: column -> alias
EventAliases ==
    [id |-> "id", title |-> "title", description |-> "description",
     event_date |-> "date", start_time |-> "start", end_time |-> "end",
     location |-> "location", category |-> "category", attendees |-> "attendees",
     reminder |-> "reminder", is_all_day |-> "isAllDay",
     recurrence |-> "recurrence", recurrence_end |-> "recurrenceEnd",
     show_as |-> "showAs", priority |-> "priority", is_online |-> "isOnline",
     meeting_link |-> "meetingLink", attachments |-> "attachments",
     repeat_weekly |-> "repeatWeekly", created_date |-> "createdDate",
     modified_date |-> "modifiedDate"]

\* the row object the engine returns for one calendar_events row
EventRow(eng, r) ==
    LET keys == {AliasKey(eng, EventAliases[c]) : c \in DOMAIN EventAliases}
        col(key) == CHOOSE c \in DOMAIN EventAliases :
                       AliasKey(eng, EventAliases[c]) = key
    IN [key \in keys |-> r[col(key)]]

\* Boolean(x) of a column value
ToBoolean(v) == Bool(v # Undefined /\ v # Null /\ Truthy(v))

\* rows.map(row => ({...row, isAllDay: Boolean(row.isAllDay), ...}))
EventJson(row) ==
    LET flags == {"isAllDay", "isOnline", "repeatWeekly"}
    IN [key \in DOMAIN row \cup flags |->
          IF key \in flags THEN ToBoolean(Field(row, key)) ELSE row[key]]

ListEvents(eng, d, email) ==
    {[i \in DOMAIN s |-> EventJson(EventRow(eng, s[i]))] :
        s \in {q \in Listings(SqlSelect(d, "calendar_events", email)) :
                  EventOrder(eng, q)}}

(***************************************************************************)
(* Request bodies.  A body is given by the fields it carries; a shape      *)
(* fills the optional fields of a route: all omitted, all falsy ("" for a  *)
(* text, 0 for a number, false for a flag), or all set.                    *)
(***************************************************************************)
Shapes == {"omit", "falsy", "full"}

Shaped(texts, numbers, flags, shape) ==
    [f \in texts \cup numbers \cup flags |->
        CASE shape = "omit" -> Undefined
          [] shape = "falsy" ->
               IF f \in texts THEN EmptyText
               ELSE IF f \in numbers THEN Num(0) ELSE Bool(FALSE)
          [] shape = "full" ->
               IF f \in texts THEN Text("x")
               ELSE IF f \in numbers THEN Num(7) ELSE Bool(TRUE)]

With(body, f, v) == [g \in DOMAIN body \cup {f} |-> IF g = f THEN v ELSE body[g]]

\* the bodies of a create route whose owner field is f: no owner, either
\* owner with nothing else, and owner a with the falsy and with the full shape
Owned(f, texts, numbers, flags) ==
    {With(Shaped(texts, numbers, flags, "omit"), f, o) :
        o \in {Undefined, OwnerA, OwnerB}}
    \cup {With(Shaped(texts, numbers, flags, s), f, OwnerA) : s \in {"falsy", "full"}}

Unowned(texts, numbers, flags) ==
    {Shaped(texts, numbers, flags, s) : s \in Shapes}

CareerGoalTexts ==
    {"title", "description", "goal_type", "target_date", "start_date",
     "stage_description"}
CareerGoalNumbers == {"progress", "total_stages", "current_stage"}
EventTexts ==
    {"title", "description", "date", "start", "end", "location", "category",
     "attendees", "recurrence", "recurrenceEnd", "showAs", "priority",
     "meetingLink", "attachments"}
EventFlags == {"isAllDay", "isOnline", "repeatWeekly"}
CalendarEventTexts ==
    {"title", "description", "event_date", "start_time", "end_time"}

\* the bodies posted to a create route: the fields its handler destructures;
\* a calendar event is also posted on the date of the full shape with an
\* earlier start
CreateBodies ==
  [r \in {"POST /projects", "POST /meetings", "POST /ideas", "POST /notes",
          "POST /career_goals", "POST /future_work", "POST /deadlines",
          "POST /events", "POST /calendar_events"} |->
    CASE r = "POST /projects" ->
           {With(With(Shaped({"colleagues"}, {"progress"}, {}, "omit"), "name", n),
                 "owner_email", o) :
               n \in {Undefined, Text("x")}, o \in {Undefined, OwnerA, OwnerB}}
           \cup {With(With(Shaped({"colleagues"}, {"progress"}, {}, s),
                           "name", Text("x")),
                      "owner_email", OwnerA) : s \in {"falsy", "full"}}
           \* progress sent as a text
           \cup {With(With(With(Shaped({"colleagues"}, {"progress"}, {}, "full"),
                                "name", Text("x")),
                           "owner_email", OwnerA),
                      "progress", p) : p \in {Text("x"), Text("already exists")}}
      [] r = "POST /meetings" ->
           Owned("colleague_email", {"date", "description"}, {}, {})
      [] r = "POST /ideas" ->
           Owned("user_email", {"title", "content", "category", "created_date"},
                 {}, {})
      [] r = "POST /notes" ->
           Owned("user_email", {"title", "content", "created_date"}, {}, {})
      [] r = "POST /career_goals" ->
           Owned("user_email", CareerGoalTexts \cup {"created_date"},
                 CareerGoalNumbers, {})
      [] r = "POST /future_work" ->
           Owned("user_email",
                 {"title", "description", "priority", "timeline", "created_date"},
                 {}, {})
      [] r = "POST /deadlines" ->
           Owned("user_email",
                 {"title", "description", "due_date", "priority", "status",
                  "created_date"}, {}, {})
      [] r = "POST /events" ->
           LET bodies == Owned("userEmail", EventTexts, {"reminder"}, EventFlags)
           IN bodies \cup {With(b, "start", Text("d")) :
                             b \in {c \in bodies : c.start = Text("x")}}
      [] r = "POST /calendar_events" ->
           LET bodies == Owned("user_email",
                               CalendarEventTexts \cup {"created_date"},
                               {"repeat_weekly"}, {})
           IN bodies \cup {With(b, "start_time", Text("d")) :
                             b \in {c \in bodies : c.start_time = Text("x")}}]

\* the bodies put to an update route: the fields its handler destructures
UpdateBodies ==
  [r \in {"PUT /projects/:id", "PUT /projects/:id/description", "PUT /ideas/:id",
          "PUT /notes/:id", "PUT /career_goals/:id", "PUT /future_work/:id",
          "PUT /deadlines/:id", "PUT /events/:id", "PUT /calendar_events/:id"} |->
    CASE r = "PUT /projects/:id" -> Unowned({"name", "colleagues"}, {"progress"}, {})
      [] r = "PUT /projects/:id/description" ->
           Unowned({"projectTitle", "notes"}, {}, {})
      [] r = "PUT /ideas/:id" -> Unowned({"title", "content", "category"}, {}, {})
      [] r = "PUT /notes/:id" -> Unowned({"title", "content"}, {}, {})
      [] r = "PUT /career_goals/:id" -> Unowned(CareerGoalTexts, CareerGoalNumbers, {})
      [] r = "PUT /future_work/:id" ->
           Unowned({"title", "description", "priority", "timeline"}, {}, {})
      [] r = "PUT /deadlines/:id" ->
           Unowned({"title", "description", "due_date", "priority", "status"}, {}, {})
      [] r = "PUT /events/:id" -> Unowned(EventTexts, {"reminder"}, EventFlags)
      [] r = "PUT /calendar_events/:id" ->
           Unowned(CalendarEventTexts, {"repeat_weekly"}, {})]

\* the emails a list route is asked for
ListEmails == {OwnerA, OwnerB}

(***************************************************************************)
(* Identity actions.                                                       *)
(***************************************************************************)
CurrentStore == Store(users, userSeq, salts, plain)
resourceVars == <<tables, seqs, now, ops, family, req, calls>>

Register(email, password) ==
    LET o == RegisterOutcome(engine, CurrentStore, email, password)
    IN /\ o.store.salts <= MaxHashes
       /\ users' = o.store.users
       /\ userSeq' = o.store.userSeq
       /\ salts' = o.store.salts
       /\ plain' = o.store.plain
       /\ route' = "register"
       /\ resp' = o.resp
       /\ UNCHANGED <<engine, resourceVars>>

Signup(email, password) ==
    LET o == SignupOutcome(engine, CurrentStore, email, password)
    IN /\ o.store.salts <= MaxHashes
       /\ users' = o.store.users
       /\ userSeq' = o.store.userSeq
       /\ salts' = o.store.salts
       /\ plain' = o.store.plain
       /\ route' = "signup"
       /\ resp' = o.resp
       /\ UNCHANGED <<engine, resourceVars>>

Login(email, password) ==
    /\ resp' = LoginResponse(users, email, password)
    /\ route' = "login"
    /\ UNCHANGED <<engine, users, userSeq, salts, plain, resourceVars>>

EmptyTables == [k \in Tables |-> {}]

InitAuth ==
    /\ engine \in Engines
    /\ users = {}
    /\ userSeq = 0
    /\ salts = 0
    /\ plain = <<>>
    /\ route = "none"
    /\ req = NoRequest
    /\ calls = <<>>
    /\ resp = NoResponse
    /\ tables = EmptyTables
    /\ seqs = [k \in Tables |-> 0]
    /\ now = 0
    /\ ops = 0
    /\ family = "identity"

NextAuth ==
    \/ \E e \in EmailInputs, p \in PasswordInputs : Register(e, p)
    \/ \E e \in EmailInputs, p \in PasswordInputs : Signup(e, p)
    \/ \E e \in EmailInputs, p \in PasswordInputs : Login(e, p)

SpecAuth == InitAuth /\ [][NextAuth]_vars

(***************************************************************************)
(* Resource actions.  A run addresses one resource family (every statement *)
(* of a handler names one table, so requests to different families do not  *)
(* read or write each other's rows); besides its family's requests a run   *)
(* may post meetings, so that a second table holds rows.  The two surfaces *)
(* of calendar_events are two families: "events" posts through /events and *)
(* updates through both surfaces, "calendar_events" uses the legacy routes;*)
(* both list through both surfaces.                                        *)
(***************************************************************************)
CurrentDb == Database(tables, seqs)
authVars == <<engine, users, userSeq, salts, plain>>

\* the ids a request names: those handed out so far and the next one
Ids(k) == 1..(seqs[k] + 1)

\* the clock readings of a request: that of the last reading, or a later one
Clock == {now, now + 1}

Families ==
    {"projects", "meetings", "ideas", "notes", "career_goals", "future_work",
     "deadlines", "events", "calendar_events"}
Calendar == {"events", "calendar_events"}

\* a request that writes: h is its handler's outcome
Write(fams, name, rq, h, clock) ==
    /\ family \in fams
    /\ ops < MaxOps
    /\ ops' = ops + 1
    /\ now' = clock
    /\ LET o == h
       IN /\ tables' = o.db.tables
          /\ seqs' = o.db.seqs
          /\ resp' = o.resp
    /\ route' = name
    /\ req' = rq
    /\ UNCHANGED <<authVars, family, calls>>

\* a request that lists: listings are the results its statement may return
Read(fams, name, rq, listings) ==
    /\ family \in fams
    /\ \E s \in listings : resp' = Json(200, s)
    /\ route' = name
    /\ req' = rq
    /\ UNCHANGED <<authVars, tables, seqs, now, ops, family, calls>>

PostProjects(body) ==
    Write({"projects"}, "POST /projects", Request(body, 0, Undefined),
          CreateProject(engine, users, CurrentDb, body), now)
GetProjects(email) ==
    Read({"projects"}, "GET /projects/:email", Request(NoBody, 0, email),
          ListProjects(engine, CurrentDb, email))
PutProjects(id, body) ==
    Write({"projects"}, "PUT /projects/:id", Request(body, id, Undefined),
          UpdateProject(engine, CurrentDb, id, body), now)
DeleteProjects(id) ==
    Write({"projects"}, "DELETE /projects/:id", Request(NoBody, id, Undefined),
          DeleteProject(engine, CurrentDb, id), now)
PutProjectDescription(id, body) ==
    Write({"projects"}, "PUT /projects/:id/description", Request(body, id, Undefined),
          UpdateProjectDescription(engine, CurrentDb, id, body), now)

PostMeetings(body) ==
    Write(Families, "POST /meetings", Request(body, 0, Undefined),
          CreateMeeting(engine, users, CurrentDb, body), now)
GetMeetings(email) ==
    Read({"meetings"}, "GET /meetings/:email", Request(NoBody, 0, email),
          ListMeetings(engine, CurrentDb, email))

PostIdeas(body, clock) ==
    Write({"ideas"}, "POST /ideas", Request(body, 0, Undefined),
          CreateIdea(engine, users, CurrentDb, body, clock), clock)
GetIdeas(email) ==
    Read({"ideas"}, "GET /ideas/:email", Request(NoBody, 0, email),
          ListIdeas(engine, CurrentDb, email))
PutIdeas(id, body) ==
    Write({"ideas"}, "PUT /ideas/:id", Request(body, id, Undefined),
          UpdateIdea(engine, CurrentDb, id, body), now)
DeleteIdeas(id) ==
    Write({"ideas"}, "DELETE /ideas/:id", Request(NoBody, id, Undefined),
          DeleteIdea(engine, CurrentDb, id), now)

PostNotes(body, clock) ==
    Write({"notes"}, "POST /notes", Request(body, 0, Undefined),
          CreateNote(engine, users, CurrentDb, body, clock), clock)
GetNotes(email) ==
    Read({"notes"}, "GET /notes/:email", Request(NoBody, 0, email),
          ListNotes(engine, CurrentDb, email))
PutNotes(id, body) ==
    Write({"notes"}, "PUT /notes/:id", Request(body, id, Undefined),
          UpdateNote(engine, CurrentDb, id, body), now)
DeleteNotes(id) ==
    Write({"notes"}, "DELETE /notes/:id", Request(NoBody, id, Undefined),
          DeleteNote(engine, CurrentDb, id), now)

PostCareerGoals(body, clock) ==
    Write({"career_goals"}, "POST /career_goals", Request(body, 0, Undefined),
          CreateCareerGoal(engine, users, CurrentDb, body, clock), clock)
GetCareerGoals(email) ==
    Read({"career_goals"}, "GET /career_goals/:email", Request(NoBody, 0, email),
          ListCareerGoals(engine, CurrentDb, email))
GetCareer(email) ==
    Read({"career_goals"}, "GET /career/:email", Request(NoBody, 0, email),
          ListCareer(engine, CurrentDb, email))
PutCareerGoals(id, body) ==
    Write({"career_goals"}, "PUT /career_goals/:id", Request(body, id, Undefined),
          UpdateCareerGoal(engine, CurrentDb, id, body), now)
DeleteCareerGoals(id) ==
    Write({"career_goals"}, "DELETE /career_goals/:id", Request(NoBody, id, Undefined),
          DeleteCareerGoal(engine, CurrentDb, id), now)

PostFutureWork(body, clock) ==
    Write({"future_work"}, "POST /future_work", Request(body, 0, Undefined),
          CreateFutureWork(engine, users, CurrentDb, body, clock), clock)
GetFutureWork(email) ==
    Read({"future_work"}, "GET /future_work/:email", Request(NoBody, 0, email),
          ListFutureWork(engine, CurrentDb, email))
GetFuture(email) ==
    Read({"future_work"}, "GET /future/:email", Request(NoBody, 0, email),
          ListFuture(engine, CurrentDb, email))
PutFutureWork(id, body) ==
    Write({"future_work"}, "PUT /future_work/:id", Request(body, id, Undefined),
          UpdateFutureWork(engine, CurrentDb, id, body), now)
DeleteFutureWorks(id) ==
    Write({"future_work"}, "DELETE /future_work/:id", Request(NoBody, id, Undefined),
          DeleteFutureWork(engine, CurrentDb, id), now)

PostDeadlines(body, clock) ==
    Write({"deadlines"}, "POST /deadlines", Request(body, 0, Undefined),
          CreateDeadline(engine, users, CurrentDb, body, clock), clock)
GetDeadlines(email) ==
    Read({"deadlines"}, "GET /deadlines/:email", Request(NoBody, 0, email),
          ListDeadlines(engine, CurrentDb, email))
PutDeadlines(id, body) ==
    Write({"deadlines"}, "PUT /deadlines/:id", Request(body, id, Undefined),
          UpdateDeadline(engine, CurrentDb, id, body), now)
DeleteDeadlines(id) ==
    Write({"deadlines"}, "DELETE /deadlines/:id", Request(NoBody, id, Undefined),
          DeleteDeadline(engine, CurrentDb, id), now)

PostEvents(body, clock) ==
    Write({"events"}, "POST /events", Request(body, 0, Undefined),
          CreateEvent(engine, users, CurrentDb, body, clock), clock)
GetEvents(email) ==
    Read(Calendar, "GET /events/:email", Request(NoBody, 0, email),
          ListEvents(engine, CurrentDb, email))
PutEvents(id, body, clock) ==
    Write({"events"}, "PUT /events/:id", Request(body, id, Undefined),
          UpdateEvent(engine, CurrentDb, id, body, clock), clock)
DeleteEvents(id) ==
    Write({"events"}, "DELETE /events/:id", Request(NoBody, id, Undefined),
          DeleteEvent(engine, CurrentDb, id), now)

PostCalendarEvents(body, clock) ==
    Write({"calendar_events"}, "POST /calendar_events", Request(body, 0, Undefined),
          CreateCalendarEvent(engine, users, CurrentDb, body, clock), clock)
GetCalendarEvents(email) ==
    Read(Calendar, "GET /calendar_events/:email", Request(NoBody, 0, email),
          ListCalendarEvents(engine, CurrentDb, email))
PutCalendarEvents(id, body) ==
    Write(Calendar, "PUT /calendar_events/:id", Request(body, id, Undefined),
          UpdateCalendarEvent(engine, CurrentDb, id, body), now)
DeleteCalendarEvents(id) ==
    Write({"calendar_events"}, "DELETE /calendar_events/:id", Request(NoBody, id, Undefined),
          DeleteCalendarEvent(engine, CurrentDb, id), now)

\* the identity "a" as Register stores it
RegisteredA ==
    RegisterOutcome("pg", Store({}, 0, 0, <<>>), OwnerA, Str(Rep("p", MinPasswordLen))).store

\* a fresh SQLite store, or a PostgreSQL store in which "a" has registered
\* (PostgreSQL accepts a resource row only if its user_email is registered)
InitRes ==
    /\ family \in Families
    /\ \/ /\ engine = "sqlite"
          /\ users = {} /\ userSeq = 0 /\ salts = 0 /\ plain = <<>>
       \/ /\ engine = "pg"
          /\ users = RegisteredA.users /\ userSeq = RegisteredA.userSeq
          /\ salts = RegisteredA.salts /\ plain = RegisteredA.plain
    /\ route = "none"
    /\ req = NoRequest
    /\ calls = <<>>
    /\ resp = NoResponse
    /\ tables = EmptyTables
    /\ seqs = [k \in Tables |-> 0]
    /\ now = 0
    /\ ops = 0

NextRes ==
    \/ \E b \in CreateBodies["POST /projects"] : PostProjects(b)
    \/ \E e \in ListEmails : GetProjects(e)
    \/ \E i \in Ids("projects"), b \in UpdateBodies["PUT /projects/:id"] :
          PutProjects(i, b)
    \/ \E i \in Ids("projects") : DeleteProjects(i)
    \/ \E i \in Ids("projects"), b \in UpdateBodies["PUT /projects/:id/description"] :
          PutProjectDescription(i, b)
    \/ \E b \in (IF family = "meetings" THEN CreateBodies["POST /meetings"]
                 ELSE {With(Shaped({"date", "description"}, {}, {}, "full"),
                            "colleague_email", OwnerA)}) : PostMeetings(b)
    \/ \E e \in ListEmails : GetMeetings(e)
    \/ \E b \in CreateBodies["POST /ideas"], c \in Clock : PostIdeas(b, c)
    \/ \E e \in ListEmails : GetIdeas(e)
    \/ \E i \in Ids("ideas"), b \in UpdateBodies["PUT /ideas/:id"] :
          PutIdeas(i, b)
    \/ \E i \in Ids("ideas") : DeleteIdeas(i)
    \/ \E b \in CreateBodies["POST /notes"], c \in Clock : PostNotes(b, c)
    \/ \E e \in ListEmails : GetNotes(e)
    \/ \E i \in Ids("notes"), b \in UpdateBodies["PUT /notes/:id"] :
          PutNotes(i, b)
    \/ \E i \in Ids("notes") : DeleteNotes(i)
    \/ \E b \in CreateBodies["POST /career_goals"], c \in Clock :
          PostCareerGoals(b, c)
    \/ \E e \in ListEmails : GetCareerGoals(e)
    \/ \E e \in ListEmails : GetCareer(e)
    \/ \E i \in Ids("career_goals"), b \in UpdateBodies["PUT /career_goals/:id"] :
          PutCareerGoals(i, b)
    \/ \E i \in Ids("career_goals") : DeleteCareerGoals(i)
    \/ \E b \in CreateBodies["POST /future_work"], c \in Clock :
          PostFutureWork(b, c)
    \/ \E e \in ListEmails : GetFutureWork(e)
    \/ \E e \in ListEmails : GetFuture(e)
    \/ \E i \in Ids("future_work"), b \in UpdateBodies["PUT /future_work/:id"] :
          PutFutureWork(i, b)
    \/ \E i \in Ids("future_work") : DeleteFutureWorks(i)
    \/ \E b \in CreateBodies["POST /deadlines"], c \in Clock :
          PostDeadlines(b, c)
    \/ \E e \in ListEmails : GetDeadlines(e)
    \/ \E i \in Ids("deadlines"), b \in UpdateBodies["PUT /deadlines/:id"] :
          PutDeadlines(i, b)
    \/ \E i \in Ids("deadlines") : DeleteDeadlines(i)
    \/ \E b \in CreateBodies["POST /events"], c \in Clock : PostEvents(b, c)
    \/ \E e \in ListEmails : GetEvents(e)
    \/ \E i \in Ids("calendar_events"), b \in UpdateBodies["PUT /events/:id"],
          c \in Clock :
          PutEvents(i, b, c)
    \/ \E i \in Ids("calendar_events") : DeleteEvents(i)
    \/ \E b \in CreateBodies["POST /calendar_events"], c \in Clock :
          PostCalendarEvents(b, c)
    \/ \E e \in ListEmails : GetCalendarEvents(e)
    \/ \E i \in Ids("calendar_events"),
          b \in UpdateBodies["PUT /calendar_events/:id"] :
          PutCalendarEvents(i, b)
    \/ \E i \in Ids("calendar_events") : DeleteCalendarEvents(i)

SpecRes == InitRes /\ [][NextRes]_vars

(***************************************************************************)
(* Profiles (server.js:234-260, 949-1047).  POST /profile is a check and a *)
(* write: it reads the clock, issues SELECT id FROM profiles, and in the   *)
(* callback of that issues an UPDATE or, after a second clock reading, an  *)
(* INSERT.  The statements of other requests may run between its two.      *)
(***************************************************************************)
MaxCalls == 2

\* a list-valued field of a body
JsArray(items) == [t |-> "array", v |-> items]

\* JSON.stringify of an array of strings, as the characters of its text
RECURSIVE JsonItems(_)
JsonItems(items) ==
    IF items = <<>> THEN <<>>
    ELSE <<"\"">> \o Head(items).v \o <<"\"">>
         \o (IF Tail(items) = <<>> THEN <<>> ELSE <<",">> \o JsonItems(Tail(items)))
JsonStringify(a) == Str(<<"[">> \o JsonItems(a.v) \o <<"]">>)

\* SELECT id FROM profiles WHERE user_email = ?
ProfilesGet(d, email) == {r \in d.tables["profiles"] : r.user_email = Bind(email)}

\* an INSERT into a profiles table without UNIQUE on user_email
ProfilesInsertNoUnique(eng, us, d, params) == SqlInsert(eng, us, d, "profiles", params)

\* INSERT INTO profiles: user_email is UNIQUE; PostgreSQL draws the id
\* before it finds the duplicate
ProfilesInsert(eng, us, d, params) ==
    IF ProfilesGet(d, params.user_email) # {}
    THEN StatementResult(
           IF eng = "pg" THEN [d EXCEPT !.seqs["profiles"] = @ + 1] ELSE d,
           RunResult(eng, UniqueViolation(eng), 0, 0))
    ELSE SqlInsert(eng, us, d, "profiles", params)

\* an UPDATE of profiles that sets modified_date alone
ProfilesUpdateDateOnly(eng, d, email, params) ==
    LET hit == ProfilesGet(d, email)
    IN StatementResult(
         [d EXCEPT !.tables["profiles"] =
             (@ \ hit) \cup {[r EXCEPT !.modified_date = Bind(params.modified_date)] :
                               r \in hit}],
         RunResult(eng, NoError, 0, Cardinality(hit)))

\* UPDATE profiles SET (DOMAIN params) = (params) WHERE user_email = ?
ProfilesUpdate(eng, d, email, params) ==
    LET hit == ProfilesGet(d, email)
        set(r) == [c \in DOMAIN r |->
                     IF c \in DOMAIN params THEN Bind(params[c]) ELSE r[c]]
    IN StatementResult(
         [d EXCEPT !.tables["profiles"] = (@ \ hit) \cup {set(r) : r \in hit}],
         RunResult(eng, NoError, 0, Cardinality(hit)))

\* DELETE FROM profiles WHERE user_email = ?
ProfilesDelete(eng, d, email) ==
    LET hit == ProfilesGet(d, email)
    IN StatementResult([d EXCEPT !.tables["profiles"] = @ \ hit],
                       RunResult(eng, NoError, 0, Cardinality(hit)))

\* the parameters both statements of a save bind for the profile's fields
ProfileFields(body) ==
    [full_name |-> Field(body, "fullName"),
     degrees |-> JsonStringify(OrDefault(Field(body, "degrees"), JsArray(<<>>)))]

ProfileCreated(id) == Json(200, [message |-> "Profile created successfully", id |-> id])
ProfileUpdated(n) ==
    Json(200, [message |-> "Profile updated successfully", updated |-> n])
ProfileDeleted(n) ==
    Json(200, [deleted |-> n, message |-> "Profile deleted successfully"])

\* a request under way: pc is the statement it waits for ("done": answered),
\* modified and created are the clock readings it took, wrote the profile
\* rows of its owner as its statement left them, alone whether every
\* earlier request had been answered when it arrived
Call(kind, body, pc, alone) ==
    [kind |-> kind, body |-> body, pc |-> pc, alone |-> alone, modified |-> Null,
     created |-> Null, resp |-> NoResponse, wrote |-> {}]

\* POST /profile up to its db.get
SaveProfileBegin(body, clock, alone) ==
    IF ~Truthy(Field(body, "userEmail"))
    THEN [Call("save", body, "done", alone) EXCEPT
            !.resp = ErrorResponse(400, "User email is required.")]
    ELSE [Call("save", body, "get", alone) EXCEPT !.modified = Time(clock)]

\* a check that finds no row whatever the table holds
SaveProfileCheckSeesNoRow(call, d, clock) ==
    [call EXCEPT !.pc = "insert", !.created = Time(clock)]

\* the callback of db.get: the statement it issues
SaveProfileCheck(call, d, clock) ==
    IF ProfilesGet(d, call.body.userEmail) # {}
    THEN [call EXCEPT !.pc = "update"]
    ELSE [call EXCEPT !.pc = "insert", !.created = Time(clock)]

\* the statement of a save and the callback of its db.run
SaveProfileWrite(eng, us, d, call) ==
    LET email == call.body.userEmail
        fields == ProfileFields(call.body)
    IN IF call.pc = "update"
       THEN LET st == ProfilesUpdate(eng, d, email,
                        [full_name |-> fields.full_name, degrees |-> fields.degrees,
                         modified_date |-> call.modified])
            IN IF st.res.err.t = "error"
               THEN Handled(ErrorResponse(500, "Error updating profile."), st.db)
               ELSE Handled(ProfileUpdated(st.res.changes), st.db)
       ELSE LET st == ProfilesInsert(eng, us, d,
                        [user_email |-> email, full_name |-> fields.full_name,
                         degrees |-> fields.degrees, created_date |-> call.created,
                         modified_date |-> call.modified])
            IN IF st.res.err.t = "error"
               THEN Handled(ErrorResponse(500, "Error creating profile."), st.db)
               ELSE Handled(ProfileCreated(st.res.lastID), st.db)

\* DELETE /profile/:email
DeleteProfileByEmail(eng, d, email) ==
    LET st == ProfilesDelete(eng, d, email)
    IN IF st.res.err.t = "error"
       THEN Handled(ErrorResponse(500, "Error deleting profile."), st.db)
       ELSE Handled(ProfileDeleted(st.res.changes), st.db)

\* the bodies posted to /profile
ProfileBodies ==
    {[userEmail |-> Undefined, fullName |-> Undefined, degrees |-> Undefined],
     [userEmail |-> OwnerA, fullName |-> Undefined, degrees |-> Undefined],
     [userEmail |-> OwnerA, fullName |-> Text("x"),
      degrees |-> JsArray(<<Text("x")>>)],
     [userEmail |-> OwnerA, fullName |-> Text("y"), degrees |-> JsArray(<<>>)],
     [userEmail |-> OwnerB, fullName |-> Text("x"), degrees |-> Undefined]}

Answered == \A i \in DOMAIN calls : calls[i].pc = "done"

PostProfile(body, clock) ==
    /\ family = "profiles"
    /\ Len(calls) < MaxCalls
    /\ LET c == SaveProfileBegin(body, clock, Answered)
       IN /\ calls' = Append(calls, c)
          /\ IF c.pc = "done"
             THEN /\ route' = "POST /profile"
                  /\ req' = Request(body, 0, Undefined)
                  /\ resp' = c.resp
             ELSE UNCHANGED <<route, req, resp>>
    /\ now' = clock
    /\ UNCHANGED <<authVars, tables, seqs, ops, family>>

PostProfileGet(i, clock) ==
    /\ calls[i].kind = "save"
    /\ calls[i].pc = "get"
    /\ calls' = [calls EXCEPT ![i] = SaveProfileCheck(@, CurrentDb, clock)]
    /\ now' = clock
    /\ UNCHANGED <<authVars, tables, seqs, ops, family, route, req, resp>>

PostProfileRun(i) ==
    /\ calls[i].kind = "save"
    /\ calls[i].pc \in {"insert", "update"}
    /\ LET o == SaveProfileWrite(engine, users, CurrentDb, calls[i])
       IN /\ tables' = o.db.tables
          /\ seqs' = o.db.seqs
          /\ resp' = o.resp
          /\ calls' = [calls EXCEPT ![i].pc = "done", ![i].resp = o.resp,
                          ![i].wrote = ProfilesGet(o.db, calls[i].body.userEmail)]
    /\ route' = "POST /profile"
    /\ req' = Request(calls[i].body, 0, Undefined)
    /\ UNCHANGED <<authVars, now, ops, family>>

DeleteProfile(email) ==
    /\ family = "profiles"
    /\ Len(calls) < MaxCalls
    /\ LET o == DeleteProfileByEmail(engine, CurrentDb, email)
       IN /\ tables' = o.db.tables
          /\ seqs' = o.db.seqs
          /\ resp' = o.resp
          /\ calls' = Append(calls,
                 [Call("delete", [userEmail |-> email], "done", Answered) EXCEPT
                     !.resp = o.resp])
    /\ route' = "DELETE /profile/:email"
    /\ req' = Request(NoBody, 0, email)
    /\ UNCHANGED <<authVars, now, ops, family>>

InitProfile ==
    /\ family = "profiles"
    /\ \/ /\ engine = "sqlite"
          /\ users = {} /\ userSeq = 0 /\ salts = 0 /\ plain = <<>>
       \/ /\ engine = "pg"
          /\ users = RegisteredA.users /\ userSeq = RegisteredA.userSeq
          /\ salts = RegisteredA.salts /\ plain = RegisteredA.plain
    /\ route = "none"
    /\ req = NoRequest
    /\ calls = <<>>
    /\ resp = NoResponse
    /\ tables = EmptyTables
    /\ seqs = [k \in Tables |-> 0]
    /\ now = 0
    /\ ops = 0

NextProfile ==
    \/ \E b \in ProfileBodies, c \in Clock : PostProfile(b, c)
    \/ \E i \in DOMAIN calls, c \in Clock : PostProfileGet(i, c)
    \/ \E i \in DOMAIN calls : PostProfileRun(i)
    \/ \E e \in ListEmails : DeleteProfile(e)

SpecProfile == InitProfile /\ [][NextProfile]_vars

(***************************************************************************)
(* GET /profile/:email (server.js:906-947) and db.get (server.js:50-61).   *)
(* The handler issues one SELECT; its callback answers 500 on an error,    *)
(* null when there is no row, and otherwise the profile, the list columns  *)
(* read with JSON.parse.  JSON.parse raises on a text that is not JSON.    *)
(* The database outlives the process (CREATE TABLE IF NOT EXISTS), so the  *)
(* server may start over a profiles table whose list column holds any      *)
(* text.                                                                   *)
(***************************************************************************)
Parsed(v) == [thrown |-> FALSE, v |-> v]
SyntaxError == [thrown |-> TRUE, v |-> Undefined]

\* the position of the quote that closes the string opened at s[1], 0 if none
Closing(s) ==
    LET q == {i \in 2..Len(s) : s[i] = "\""}
    IN IF q = {} THEN 0 ELSE CHOOSE i \in q : \A j \in q : i <= j

\* the items of an array text after its opening bracket
RECURSIVE JsonParseItems(_, _)
JsonParseItems(s, acc) ==
    IF s = <<>> \/ Head(s) # "\"" \/ Closing(s) = 0 THEN SyntaxError
    ELSE LET j == Closing(s)
             items == Append(acc, Str(SubSeq(s, 2, j - 1)))
             rest == SubSeq(s, j + 1, Len(s))
         IN IF rest = <<"]">> THEN Parsed(JsArray(items))
            ELSE IF rest # <<>> /\ Head(rest) = "," /\ Tail(rest) # <<>>
            THEN JsonParseItems(Tail(rest), items)
            ELSE SyntaxError

\* JSON.parse of the text of an array of strings: the array, or a SyntaxError
JsonParse(text) ==
    IF text.v = <<"[", "]">> THEN Parsed(JsArray(<<>>))
    ELSE IF text.v # <<>> /\ Head(text.v) = "["
    THEN JsonParseItems(Tail(text.v), <<>>)
    ELSE SyntaxError

\* what one invocation of the handler's callback does: the response it
\* sends, or none when it raises before it sends one
Invocation(thrown, response) == [thrown |-> thrown, resp |-> response]

\* the callback of GET /profile/:email
FetchProfileCallback(err, row) ==
    IF err THEN Invocation(FALSE, ErrorResponse(500, "Error fetching profile."))
    ELSE IF row = Null THEN Invocation(FALSE, Json(200, Null))
    ELSE LET degrees == IF Truthy(row.degrees) THEN JsonParse(row.degrees)
                        ELSE Parsed(JsArray(<<>>))
         IN IF degrees.thrown THEN Invocation(TRUE, NoResponse)
            ELSE Invocation(FALSE,
                            Json(200, [userEmail |-> row.user_email,
                                       fullName |-> row.full_name,
                                       degrees |-> degrees.v]))

\* the callback a handler passes to db.get, named by its route
Invoke(callback, err, row) ==
    CASE callback = "GET /profile/:email" -> FetchProfileCallback(err, row)

\* db.get: the invocations of the callback, in order.  node-sqlite3 invokes
\* it once, and what it raises becomes an uncaught exception, which the
\* process logs (server.js:1184-1186).  The PostgreSQL wrapper invokes it
\* inside .then, so what it raises rejects the promise, and .catch invokes
\* it again with that error
DbGet(eng, failed, rows, callback) ==
    LET row == IF rows = {} THEN Null ELSE CHOOSE r \in rows : TRUE
        first == Invoke(callback, failed, IF failed THEN Null ELSE row)
    IN IF eng = "pg" /\ ~failed /\ first.thrown
       THEN <<first, Invoke(callback, TRUE, Null)>>
       ELSE <<first>>

\* a GET /profile/:email in progress: invoked counts the invocations of its
\* callback, answers the responses sent, failed whether its SELECT failed
FetchCall(email, alone) ==
    [kind |-> "fetch", body |-> [userEmail |-> email], pc |-> "get",
     alone |-> alone, failed |-> FALSE, invoked |-> 0, answers |-> 0,
     resp |-> NoResponse]

\* the SELECT of a fetch settles
FetchProfileSettled(eng, d, call, failed) ==
    LET invocations == DbGet(eng, failed, ProfilesGet(d, call.body.userEmail),
                             "GET /profile/:email")
        sent == {n \in DOMAIN invocations : invocations[n].resp # NoResponse}
    IN [call EXCEPT !.pc = "done",
                    !.failed = failed,
                    !.invoked = Len(invocations),
                    !.answers = Cardinality(sent),
                    !.resp = IF sent = {} THEN NoResponse
                             ELSE invocations[CHOOSE n \in sent :
                                                \A m \in sent : m <= n].resp]

GetProfile(email) ==
    /\ family = "profiles"
    /\ Len(calls) < MaxCalls
    /\ calls' = Append(calls, FetchCall(email, Answered))
    /\ UNCHANGED <<authVars, tables, seqs, now, ops, family, route, req, resp>>

\* failed: the SELECT did not run (the connection is lost, the file is busy)
GetProfileSettles(i, failed) ==
    /\ calls[i].kind = "fetch"
    /\ calls[i].pc = "get"
    /\ LET c == FetchProfileSettled(engine, CurrentDb, calls[i], failed)
       IN /\ calls' = [calls EXCEPT ![i] = c]
          /\ IF c.answers > 0
             THEN /\ route' = "GET /profile/:email"
                  /\ req' = Request(NoBody, 0, c.body.userEmail)
                  /\ resp' = c.resp
             ELSE UNCHANGED <<route, req, resp>>
    /\ UNCHANGED <<authVars, tables, seqs, now, ops, family>>

\* the texts a list column may hold when the server starts: texts of arrays,
\* a text that is not JSON, a text cut short, the empty text
StoredTexts ==
    {JsonStringify(JsArray(<<>>)), JsonStringify(JsArray(<<Text("x"), Text("y")>>)),
     Text("x"), Str(<<"[", "\"", "x">>), EmptyText}

StoredProfile(text) ==
    [id |-> 1, user_email |-> OwnerA, full_name |-> Text("x"), degrees |-> text,
     created_date |-> Time(0), modified_date |-> Time(0)]

InitFetch ==
    /\ family = "profiles"
    /\ \/ /\ engine = "sqlite"
          /\ users = {} /\ userSeq = 0 /\ salts = 0 /\ plain = <<>>
       \/ /\ engine = "pg"
          /\ users = RegisteredA.users /\ userSeq = RegisteredA.userSeq
          /\ salts = RegisteredA.salts /\ plain = RegisteredA.plain
    /\ route = "none"
    /\ req = NoRequest
    /\ calls = <<>>
    /\ resp = NoResponse
    /\ \/ tables = EmptyTables /\ seqs = [k \in Tables |-> 0]
       \/ \E text \in StoredTexts :
             /\ tables = [EmptyTables EXCEPT !["profiles"] = {StoredProfile(text)}]
             /\ seqs = [k \in Tables |-> IF k = "profiles" THEN 1 ELSE 0]
    /\ now = 0
    /\ ops = 0

NextFetch ==
    \/ \E e \in ListEmails : GetProfile(e)
    \/ \E i \in DOMAIN calls, failed \in BOOLEAN : GetProfileSettles(i, failed)
    \/ \E b \in ProfileBodies, c \in Clock : PostProfile(b, c)
    \/ \E i \in DOMAIN calls, c \in Clock : PostProfileGet(i, c)
    \/ \E i \in DOMAIN calls : PostProfileRun(i)
    \/ \E e \in ListEmails : DeleteProfile(e)

SpecFetch == InitFetch /\ [][NextFetch]_vars

(***************************************************************************)
(* /register and /signup step by step (server.js:338-415).  A handler      *)
(* validates, awaits bcrypt.hash, and issues its INSERT from the           *)
(* continuation; the response comes from the INSERT's callback.  The steps *)
(* of other requests may come between these.                               *)
(***************************************************************************)
\* the passwords of concurrent requests: not a string, too short, and two
\* of the minimum length
RacePasswords ==
    {Num(7), Str(Rep("p", MinPasswordLen - 1)), Str(Rep("p", MinPasswordLen)),
     Str(Rep("q", MinPasswordLen))}

EmailKey(kind, email) ==
    IF kind = "register" THEN RegisterEmailKey(email) ELSE SignupEmailKey(email)

\* a request under way: pc is what it waits for ("done": answered), hash what
\* bcrypt.hash gave it, alone whether every earlier request had been
\* answered when it arrived
SignupCall(kind, email, password, pc, alone) ==
    [kind |-> kind, body |-> [email |-> email, password |-> password], pc |-> pc,
     alone |-> alone, hash |-> <<>>, resp |-> NoResponse]

\* the handler up to its await
SignupBegin(kind, email, password, alone) ==
    IF ~Truthy(email) \/ ~Truthy(password)
    THEN [SignupCall(kind, email, password, "done", alone) EXCEPT
            !.resp = RequiredResponse]
    ELSE IF PasswordTooShort(password)
    THEN [SignupCall(kind, email, password, "done", alone) EXCEPT
            !.resp = TooShortResponse]
    ELSE SignupCall(kind, email, password, "hash", alone)

\* bcrypt.hash settles: it rejects a password that is not a string, and
\* the continuation throws on an email that is not a string; salt is the
\* salt a hash drew
SignupHashed(call, salt) ==
    IF ~IsString(call.body.password) \/ ~IsString(call.body.email)
    THEN [call EXCEPT !.pc = "done", !.resp = SignupErrorResponse]
    ELSE [call EXCEPT !.pc = "insert",
                      !.hash = BcryptHash(call.body.password.v, salt)]

\* the INSERT and its callback
SignupInserted(eng, st, call) ==
    LET key == EmailKey(call.kind, call.body.email)
        ins == UsersInsert(eng, st.users, st.userSeq, key, call.hash)
        err == ins.res.err
    IN IF err.t = "error"
       THEN Outcome(IF IsUniqueError(err) THEN UserExistsResponse
                    ELSE CreateFailedResponse,
                    [st EXCEPT !.userSeq = ins.seq], TRUE)
       ELSE Outcome(CreatedResponse(ins.res.lastID, Str(key)),
                    [st EXCEPT !.users = ins.users, !.userSeq = ins.seq,
                               !.plain = [i \in DOMAIN @ \cup {ins.seq} |->
                                            IF i = ins.seq THEN call.body.password.v
                                            ELSE @[i]]],
                    TRUE)

SignupBegins(kind, email, password) ==
    /\ Len(calls) < MaxCalls
    /\ LET c == SignupBegin(kind, email, password, Answered)
       IN /\ calls' = Append(calls, c)
          /\ IF c.pc = "done"
             THEN route' = kind /\ resp' = c.resp
             ELSE UNCHANGED <<route, resp>>
    /\ UNCHANGED <<authVars, tables, seqs, now, ops, family, req>>

SignupHashes(i) ==
    /\ calls[i].pc = "hash"
    /\ LET drawn == IsString(calls[i].body.password)
           c == SignupHashed(calls[i], salts + 1)
       IN /\ salts' = IF drawn THEN salts + 1 ELSE salts
          /\ calls' = [calls EXCEPT ![i] = c]
          /\ IF c.pc = "done"
             THEN route' = c.kind /\ resp' = c.resp
             ELSE UNCHANGED <<route, resp>>
    /\ UNCHANGED <<engine, users, userSeq, plain, tables, seqs, now, ops, family, req>>

SignupInserts(i) ==
    /\ calls[i].pc = "insert"
    /\ calls[i].kind \in {"register", "signup"}
    /\ LET o == SignupInserted(engine, CurrentStore, calls[i])
       IN /\ users' = o.store.users
          /\ userSeq' = o.store.userSeq
          /\ plain' = o.store.plain
          /\ resp' = o.resp
          /\ calls' = [calls EXCEPT ![i].pc = "done", ![i].resp = o.resp]
    /\ route' = calls[i].kind
    /\ UNCHANGED <<engine, salts, tables, seqs, now, ops, family, req>>

NextRace ==
    \/ \E k \in {"register", "signup"}, e \in EmailInputs, p \in RacePasswords :
          SignupBegins(k, e, p)
    \/ \E i \in DOMAIN calls : SignupHashes(i)
    \/ \E i \in DOMAIN calls : SignupInserts(i)

SpecRace == InitAuth /\ [][NextRace]_vars

(***************************************************************************)
(* Claims about the identity handlers, checked under SpecAuth.             *)
(***************************************************************************)
RegisteredAs(e) == {u \in users : u.email = NormalizeEmail(e)}
LongEnough == {p \in PasswordStrings : Len(p) >= MinPasswordLen}

\* C1: once Register(e, p) has succeeded, Authenticate with any email text
\* that case-folds and trims to the same value and with p succeeds, and any
\* later Register with such an email is answered "User already exists." and
\* leaves the store with the one identity and its first hash.
C1_RegisterThenAuthenticate ==
    \A u \in users : \A e \in EmailStrings :
        NormalizeEmail(e) = u.email =>
            /\ LoginResponse(users, Str(e), Str(plain[u.id])) = LoginOkResponse(Str(u.email))
            /\ Cardinality(RegisteredAs(e)) = 1
            /\ \A p \in LongEnough :
                   LET o == RegisterOutcome(engine, CurrentStore, Str(e), Str(p))
                   IN o.resp = UserExistsResponse /\ o.store.users = users

\* The same statement for the emails whose trimmed text is not empty.
RegisterThenAuthenticateNonBlank ==
    \A u \in users : \A e \in EmailStrings :
        (NormalizeEmail(e) = u.email /\ u.email # <<>>) =>
            /\ LoginResponse(users, Str(e), Str(plain[u.id])) = LoginOkResponse(Str(u.email))
            /\ Cardinality(RegisteredAs(e)) = 1
            /\ \A p \in LongEnough :
                   LET o == RegisterOutcome(engine, CurrentStore, Str(e), Str(p))
                   IN o.resp = UserExistsResponse /\ o.store.users = users

C3_InvalidRegisterRejected ==
    \A e \in EmailInputs, p \in PasswordInputs :
        (e = Undefined \/ p = Undefined \/ (IsString(p) /\ Len(p.v) < 6)) =>
            LET o == RegisterOutcome(engine, CurrentStore, e, p)
            IN o.resp.status = 400 /\ ~o.issued /\ o.store = CurrentStore

\* a register was refused for its short password while an identity is stored
C3_Witness ==
    /\ route = "register"
    /\ resp = TooShortResponse
    /\ users # {}

\* C4: from the same store and with the same input, /register and /signup
\* give the same response and leave the same store.
C4_RegisterSignupEquivalent ==
    \A e \in EmailInputs, p \in PasswordInputs :
        RegisterOutcome(engine, CurrentStore, e, p)
          = SignupOutcome(engine, CurrentStore, e, p)

\* a signup was refused for an email that register (or signup) stored before
C4_Witness ==
    /\ route = "signup"
    /\ resp = UserExistsResponse


(***************************************************************************)
(* Claims about the resource handlers, stated of the last request (route,  *)
(* req), its response (resp) and the tables it left.                       *)
(***************************************************************************)
CreateRoutes ==
    {"POST /projects", "POST /ideas", "POST /notes", "POST /career_goals",
     "POST /future_work", "POST /deadlines", "POST /events", "POST /calendar_events"}
UpdateRoutes ==
    {"PUT /projects/:id", "PUT /ideas/:id", "PUT /notes/:id", "PUT /career_goals/:id",
     "PUT /future_work/:id", "PUT /deadlines/:id", "PUT /events/:id",
     "PUT /calendar_events/:id"}
DeleteRoutes ==
    {"DELETE /projects/:id", "DELETE /ideas/:id", "DELETE /notes/:id",
     "DELETE /career_goals/:id", "DELETE /future_work/:id", "DELETE /deadlines/:id",
     "DELETE /events/:id", "DELETE /calendar_events/:id"}

\* the table of the resource a route addresses
TableOf(r) ==
    CASE r \in {"POST /projects", "PUT /projects/:id", "DELETE /projects/:id",
                "PUT /projects/:id/description"} -> "projects"
      [] r = "POST /meetings" -> "meetings"
      [] r \in {"POST /ideas", "PUT /ideas/:id", "DELETE /ideas/:id"} -> "ideas"
      [] r \in {"POST /notes", "PUT /notes/:id", "DELETE /notes/:id"} -> "notes"
      [] r \in {"POST /career_goals", "PUT /career_goals/:id",
                "DELETE /career_goals/:id"} -> "career_goals"
      [] r \in {"POST /future_work", "PUT /future_work/:id",
                "DELETE /future_work/:id"} -> "future_work"
      [] r \in {"POST /deadlines", "PUT /deadlines/:id", "DELETE /deadlines/:id"}
           -> "deadlines"
      [] OTHER -> "calendar_events"

\* the body field that carries the owner's email on a create route
OwnerField(r) ==
    CASE r = "POST /projects" -> "owner_email"
      [] r = "POST /meetings" -> "colleague_email"
      [] r = "POST /events" -> "userEmail"
      [] OTHER -> "user_email"

\* the listings the list-by-owner route of r's surface returns now
ListedBy(r, email) ==
    CASE r = "POST /projects" -> ListProjects(engine, CurrentDb, email)
      [] r = "POST /ideas" -> ListIdeas(engine, CurrentDb, email)
      [] r = "POST /notes" -> ListNotes(engine, CurrentDb, email)
      [] r = "POST /career_goals" -> ListCareerGoals(engine, CurrentDb, email)
      [] r = "POST /future_work" -> ListFutureWork(engine, CurrentDb, email)
      [] r = "POST /deadlines" -> ListDeadlines(engine, CurrentDb, email)
      [] r = "POST /events" -> ListEvents(engine, CurrentDb, email)
      [] r = "POST /calendar_events" -> ListCalendarEvents(engine, CurrentDb, email)

\* the last request was a create that succeeded / and named its owner
Created == route \in CreateRoutes \cup {"POST /meetings"} /\ resp.status = 200
CreatedOwned ==
    /\ route \in CreateRoutes
    /\ resp.status = 200
    /\ Field(req.body, OwnerField(route)) # Undefined
\* a create's row gets the id its table's key generator handed out last
NewId == seqs[TableOf(route)]
Supplied(f) == Field(req.body, f) # Undefined

\* C5: after a successful create, every list-by-owner of the resource holds
\* a record of the new id in which each field the body supplied, falsy
\* values ("" or 0 or false) included, has exactly the supplied value
C5_SuppliedValuesListed ==
    CreatedOwned =>
      \A s \in ListedBy(route, req.body[OwnerField(route)]) :
        \E i \in DOMAIN s :
          /\ s[i].id = NewId
          /\ \A f \in DOMAIN req.body \ {OwnerField(route)} :
                Supplied(f) => Field(s[i], f) = req.body[f]

\* the defaults the description of each resource documents, by listed field
Documented(r) ==
    CASE r = "POST /projects" -> [progress |-> Num(0), colleagues |-> Text("[]")]
      [] r = "POST /ideas" -> [category |-> Text("general")]
      [] r = "POST /career_goals" ->
           [progress |-> Num(0), goal_type |-> Text("general"),
            total_stages |-> Num(5), current_stage |-> Num(0)]
      [] r = "POST /future_work" -> [priority |-> Text("medium")]
      [] r = "POST /deadlines" ->
           [priority |-> Text("medium"), status |-> Text("pending")]
      [] r = "POST /events" ->
           [reminder |-> Num(15), category |-> Text("Work"),
            recurrence |-> Text("none"), showAs |-> Text("busy"),
            priority |-> Text("normal"), isAllDay |-> Bool(FALSE),
            isOnline |-> Bool(FALSE), repeatWeekly |-> Bool(FALSE)]
      [] r = "POST /calendar_events" ->
           [reminder |-> Num(15), category |-> Text("Work"),
            recurrence |-> Text("none"), show_as |-> Text("busy"),
            priority |-> Text("normal"), is_all_day |-> Bool(FALSE),
            is_online |-> Bool(FALSE), repeat_weekly |-> Bool(FALSE)]
      [] OTHER -> <<>>

\* a listed value is the documented one; a flag documented false may be
\* listed as false or as its stored form 0
HoldsDefault(v, d) == v = d \/ (d = Bool(FALSE) /\ v = Num(0))

\* the field under which a surface lists created_date
CreatedDateField(r) == IF r = "POST /events" THEN "createdDate" ELSE "created_date"
IsTimestamp(v) == "at" \in DOMAIN v

\* C6: after a successful create, every list-by-owner of the resource holds
\* a record of the new id in which each field with a documented default that
\* the body omitted has that default, and created_date, when the body did not
\* supply it, is a timestamp the server generated
C6_OmittedFieldsListedWithDefaults ==
    CreatedOwned =>
      \A s \in ListedBy(route, req.body[OwnerField(route)]) :
        \E i \in DOMAIN s :
          /\ s[i].id = NewId
          /\ \A f \in DOMAIN Documented(route) :
                ~Supplied(f) => HoldsDefault(Field(s[i], f), Documented(route)[f])
          /\ (route # "POST /projects" /\ ~Supplied("created_date")) =>
                IsTimestamp(Field(s[i], CreatedDateField(route)))

\* the column a field of a create response reports
ResponseColumn(r, f) ==
    CASE r = "POST /events" /\ f = "date" -> "event_date"
      [] r = "POST /events" /\ f = "start" -> "start_time"
      [] r = "POST /events" /\ f = "end" -> "end_time"
      [] OTHER -> f

\* C7: every field besides id of the response of a successful create has
\* the value the new row stores (a field the response leaves out standing
\* for null)
C7_CreateResponseIsStoredRecord ==
    Created =>
      \E row \in tables[TableOf(route)] :
        /\ row.id = NewId
        /\ \A f \in DOMAIN resp.body \ {"id"} :
              Bind(resp.body[f]) = row[ResponseColumn(route, f)]

\* the fields a create route requires
Required(r) == IF r = "POST /projects" THEN {"name", "owner_email"} ELSE {OwnerField(r)}
OwnedTables == Tables \ {"colleagues", "meetings"}

\* C8: a create whose body misses a required field answers 400, and no
\* table of an owned resource holds a row whose owner email is absent
C8_RequiredFieldsValidated ==
    /\ (route \in CreateRoutes /\ \E f \in Required(route) : ~Supplied(f)) =>
          resp.status = 400
    /\ \A k \in OwnedTables : \A row \in tables[k] : row[OwnerCol(k)] # Null


\* the rows of table k with identifier id
RowsWithId(tbls, k, id) == {row \in tbls[k] : row.id = id}
Updated(n) == Json(200, [updated |-> n])
Deleted(n) == Json(200, [deleted |-> n])

Mutable(r) ==
    CASE r = "PUT /projects/:id" ->
           [name |-> "name", colleagues |-> "colleagues", progress |-> "progress"]
      [] r = "PUT /ideas/:id" ->
           [title |-> "title", content |-> "content", category |-> "category"]
      [] r = "PUT /notes/:id" -> [title |-> "title", content |-> "content"]
      [] r = "PUT /career_goals/:id" ->
           [c \in CareerGoalTexts \cup CareerGoalNumbers |-> c]
      [] r = "PUT /future_work/:id" ->
           [c \in {"title", "description", "priority", "timeline"} |-> c]
      [] r = "PUT /deadlines/:id" ->
           [c \in {"title", "description", "due_date", "priority", "status"} |-> c]
      [] r = "PUT /events/:id" ->
           [c \in Cols("calendar_events")
                    \ {"user_email", "created_date", "modified_date"} |->
              EventAliases[c]]
      [] r = "PUT /calendar_events/:id" ->
           [c \in Cols("calendar_events")
                    \ {"user_email", "created_date", "modified_date"} |-> c]

Named(r) ==
    IF r = "PUT /calendar_events/:id"
    THEN {"title", "description", "event_date", "start_time", "end_time",
          "repeat_weekly"}
    ELSE DOMAIN Mutable(r)

FlagColumns == {"is_all_day", "is_online", "repeat_weekly"}

\* what the amended claim has a named column hold after the update, v being
\* the body's value for it
Replaced(r, c, v) ==
    CASE r = "PUT /projects/:id" /\ c = "progress" /\ v = Undefined -> Num(0)
      [] r = "PUT /events/:id" /\ c \in FlagColumns ->
           IF Truthy(v) THEN Num(1) ELSE Num(0)
      [] OTHER -> IF v = Undefined THEN Null ELSE v

SuppliedTruthyValuesListed ==
    (/\ engine = "sqlite"
     /\ \A f \in DOMAIN req.body : Supplied(f) => Truthy(req.body[f]))
      => C5_SuppliedValuesListed

\* under SQLite, every create but the legacy POST /calendar_events is
\* listed with the documented defaults of the fields it omitted
DefaultsListedBesidesLegacy ==
    (engine = "sqlite" /\ route # "POST /calendar_events")
      => C6_OmittedFieldsListedWithDefaults

\* a create whose body sets every field to a truthy value, the integer
\* fields to numbers, answers with the values it stored
FullBodyResponseIsStoredRecord ==
    (/\ \A f \in DOMAIN req.body : Truthy(req.body[f])
     /\ \A f \in DOMAIN req.body \cap {"progress"} : req.body[f].t = "number")
      => C7_CreateResponseIsStoredRecord

\* POST /projects validates its required fields
ProjectRequiredFieldsValidated ==
    /\ (route = "POST /projects" /\ \E f \in Required(route) : ~Supplied(f)) =>
          resp.status = 400
    /\ \A row \in tables["projects"] : row.owner_email # Null

(***************************************************************************)
(* Claims about calendar events.                                           *)
(***************************************************************************)
\* the last request wrote a calendar event through /events / through either
\* surface, and the id of the row it wrote
EventWritten ==
    \/ route = "POST /events" /\ resp.status = 200
    \/ route = "PUT /events/:id" /\ resp = Updated(1)
CalendarWritten ==
    \/ EventWritten
    \/ route = "POST /calendar_events" /\ resp.status = 200
    \/ route = "PUT /calendar_events/:id" /\ resp = Updated(1)
WrittenId ==
    IF route \in {"POST /events", "POST /calendar_events"} THEN NewId ELSE req.id

\* C11: after a create or an update through /events whose body sets a flag
\* to a boolean, GET /events/:email of the row's owner lists the row with
\* that flag as the same boolean
C11_FlagsReadBackAsBooleans ==
    EventWritten =>
      \A row \in RowsWithId(tables, "calendar_events", WrittenId) :
        row.user_email # Null =>
          \A s \in ListEvents(engine, CurrentDb, row.user_email) :
            \E i \in DOMAIN s :
              /\ s[i].id = WrittenId
              /\ \A f \in EventFlags :
                    Field(req.body, f).t = "boolean" => s[i][f] = req.body[f]

\* under SQLite the flags are read back as set
FlagsReadBackUnderSqlite == engine = "sqlite" => C11_FlagsReadBackAsBooleans

\* C12: after a successful create or update of a calendar event through
\* either surface, the row's modified_date is set and is the time of the
\* last clock reading
C12_WriteRefreshesModifiedDate ==
    CalendarWritten =>
      \A row \in RowsWithId(tables, "calendar_events", WrittenId) :
        /\ IsTimestamp(row.modified_date)
        /\ row.modified_date = Time(now)

\* through /events every write refreshes modified_date
EventWriteRefreshesModifiedDate ==
    EventWritten =>
      \A row \in RowsWithId(tables, "calendar_events", WrittenId) :
        row.modified_date = Time(now)

(***************************************************************************)
(* Claims about the list routes.                                           *)
(***************************************************************************)
ListRoutes ==
    {"GET /projects/:email", "GET /meetings/:email", "GET /ideas/:email",
     "GET /notes/:email", "GET /career_goals/:email", "GET /career/:email",
     "GET /future_work/:email", "GET /future/:email", "GET /deadlines/:email",
     "GET /events/:email", "GET /calendar_events/:email"}
ListTable(r) ==
    CASE r = "GET /projects/:email" -> "projects"
      [] r = "GET /meetings/:email" -> "meetings"
      [] r = "GET /ideas/:email" -> "ideas"
      [] r = "GET /notes/:email" -> "notes"
      [] r \in {"GET /career_goals/:email", "GET /career/:email"} -> "career_goals"
      [] r \in {"GET /future_work/:email", "GET /future/:email"} -> "future_work"
      [] r = "GET /deadlines/:email" -> "deadlines"
      [] r \in {"GET /events/:email", "GET /calendar_events/:email"} ->
           "calendar_events"

\* s is in descending / ascending order of field f, and in ascending order
\* of field f and, where f is equal, of field g
NewestFirst(s, f) ==
    \A i, j \in DOMAIN s : i < j =>
        SortKey(engine, s[i][f]) >= SortKey(engine, s[j][f])
EarliestFirst(s, f) ==
    \A i, j \in DOMAIN s : i < j =>
        SortKey(engine, s[i][f]) <= SortKey(engine, s[j][f])
EarliestFirstThen(s, f, g) ==
    /\ EarliestFirst(s, f)
    /\ \A i, j \in DOMAIN s :
          i < j /\ s[i][f] = s[j][f] =>
              SortKey(engine, s[i][g]) <= SortKey(engine, s[j][g])

\* C14: every list route answers in its documented order: ideas, notes,
\* career goals and future work (and the /career and /future aliases) newest
\* created_date first, deadlines earliest due_date first, calendar events on
\* either surface earliest date first and on one date earliest start first
C14_ListsInDocumentedOrder ==
    /\ route \in {"GET /ideas/:email", "GET /notes/:email",
                  "GET /career_goals/:email", "GET /career/:email",
                  "GET /future_work/:email", "GET /future/:email"}
         => NewestFirst(resp.body, "created_date")
    /\ route = "GET /deadlines/:email" => EarliestFirst(resp.body, "due_date")
    /\ route = "GET /events/:email" => EarliestFirstThen(resp.body, "date", "start")
    /\ route = "GET /calendar_events/:email"
         => EarliestFirstThen(resp.body, "event_date", "start_time")

\* every list but the legacy calendar list is in its documented order, and
\* the legacy list is in order of event_date
ListsInOrderBesidesLegacyStart ==
    /\ route # "GET /calendar_events/:email" => C14_ListsInDocumentedOrder
    /\ route = "GET /calendar_events/:email" => EarliestFirst(resp.body, "event_date")

\* C15: a list route answers 200 with exactly the stored rows whose owner
\* is the email asked for, each once
C15_ListHoldsExactlyOwnersRows ==
    route \in ListRoutes =>
      LET k == ListTable(route)
          owned == {r \in tables[k] : r[OwnerCol(k)] = req.email}
      IN /\ resp.status = 200
         /\ Cardinality(DOMAIN resp.body) = Cardinality(owned)
         /\ {resp.body[i].id : i \in DOMAIN resp.body} = {r.id : r \in owned}
         /\ route # "GET /events/:email" =>
                \A i \in DOMAIN resp.body : resp.body[i] \in owned

\* a list answered with rows while another owner's row is stored
C15_Witness ==
    /\ route \in ListRoutes
    /\ DOMAIN resp.body # {}
    /\ \E r \in tables[ListTable(route)] : r[OwnerCol(ListTable(route))] # req.email

\* an owner without rows is answered with the empty sequence
EmptyListWitness ==
    /\ route \in ListRoutes
    /\ resp = Json(200, <<>>)
    /\ tables[ListTable(route)] # {}

\* C20: a successful create answers with the id of the row it inserted
C20_CreateResponseCarriesId ==
    Created =>
      /\ resp.body.id = Num(NewId)
      /\ RowsWithId(tables, TableOf(route), NewId) # {}

\* under SQLite a successful create answers with the new row's id
CreateResponseCarriesIdUnderSqlite ==
    engine = "sqlite" => C20_CreateResponseCarriesId

(***************************************************************************)
(* Claims about profile saves, stated of the requests made (calls) and the *)
(* profiles table.                                                         *)
(***************************************************************************)
Saves == {i \in DOMAIN calls : calls[i].kind = "save"}
Owner(i) == calls[i].body.userEmail
ProfileRows(email) == ProfilesGet(CurrentDb, email)
ReportedCreated(i) ==
    /\ calls[i].resp.status = 200
    /\ calls[i].resp.body.message = "Profile created successfully"
ReportedUpdated(i) == calls[i].resp = ProfileUpdated(1)
\* PostgreSQL stores a profile only for a registered identity
Storable(email) == engine = "pg" => EmailTaken(users, email.v)

\* the requests made are two saves of one body for one owner, the second
\* arriving after the first was answered, and both are answered
SavedTwiceInSequence ==
    /\ Len(calls) = 2
    /\ Saves = {1, 2}
    /\ calls[1].body = calls[2].body
    /\ Truthy(Owner(1))
    /\ calls[2].alone
    /\ Answered

\* what the two saves leave: one row, the first save answered as a creation
\* and the second as an update of one row, created_date that of the first
\* save, every field as the first save stored it
OneRowUpdatedOnce(row) ==
    /\ ProfileRows(Owner(1)) = {row}
    /\ ReportedCreated(1)
    /\ ReportedUpdated(2)
    /\ \E first \in calls[1].wrote :
          /\ row.created_date = first.created_date
          /\ \A c \in Cols("profiles") \ {"modified_date"} : row[c] = first[c]

C16_OneProfilePerOwner ==
    \A r1, r2 \in tables["profiles"] : r1.user_email = r2.user_email => r1 = r2

\* two saves for one owner both found no row, both wrote, and a row is stored
C16_Witness ==
    /\ Answered
    /\ \E i, j \in Saves :
          /\ i # j
          /\ Owner(i) = Owner(j)
          /\ calls[i].created # Null
          /\ calls[j].created # Null
          /\ ProfileRows(Owner(i)) # {}

\* the requests made are two saves for one owner, both answered
SavedTwice ==
    /\ Len(calls) = 2
    /\ Saves = {1, 2}
    /\ Owner(1) = Owner(2)
    /\ Truthy(Owner(1))
    /\ Answered

\* the row a save wrote holds that save's fields and modified_date
HoldsFieldsOf(row, i) ==
    /\ row.full_name = Bind(ProfileFields(calls[i].body).full_name)
    /\ row.degrees = ProfileFields(calls[i].body).degrees
    /\ row.modified_date = calls[i].modified

\* (a) one save inserted and the other updated: the row holds the update's
\* fields and the insert's created_date
InsertThenUpdate(i, j) ==
    /\ ReportedCreated(i)
    /\ ReportedUpdated(j)
    /\ \E row \in tables["profiles"] :
          /\ ProfileRows(Owner(1)) = {row}
          /\ HoldsFieldsOf(row, j)
          /\ row.created_date = calls[i].created

\* (b) both saves found no row: one inserted, the other failed on the
\* unique column and was answered 500; the row holds the insert's fields
InsertAndRefusal(i, j) ==
    /\ calls[i].created # Null
    /\ calls[j].created # Null
    /\ ReportedCreated(i)
    /\ calls[j].resp = ErrorResponse(500, "Error creating profile.")
    /\ \E row \in tables["profiles"] :
          /\ ProfileRows(Owner(1)) = {row}
          /\ HoldsFieldsOf(row, i)
          /\ row.created_date = calls[i].created

LostUpdateWitness ==
    /\ SavedTwice
    /\ ~calls[2].alone
    /\ calls[1].body # calls[2].body
    /\ \E i, j \in {1, 2} : i # j /\ InsertThenUpdate(i, j)

\* C18: a save that inserted stored created_date and modified_date as the
\* same instant, and every profile row has modified_date not earlier than
\* created_date
C18_ModifiedNotBeforeCreated ==
    /\ \A i \in Saves :
          (calls[i].pc = "done" /\ ReportedCreated(i)) =>
              \A row \in calls[i].wrote : row.created_date = row.modified_date
    /\ \A row \in tables["profiles"] :
          row.modified_date.at >= row.created_date.at

\* a save that inserted stored modified_date not later than created_date
InsertedModifiedNotAfterCreated ==
    \A i \in Saves :
        (calls[i].pc = "done" /\ ReportedCreated(i)) =>
            \A row \in calls[i].wrote : row.modified_date.at <= row.created_date.at

(***************************************************************************)
(* Claims about concurrent registrations, stated of the requests made      *)
(* (calls) and the users table.                                            *)
(***************************************************************************)
\* the requests that pass validation and whose email normalises to key
Registering(key) ==
    {i \in DOMAIN calls :
        /\ IsString(calls[i].body.email)
        /\ IsString(calls[i].body.password)
        /\ Truthy(calls[i].body.email)
        /\ Len(calls[i].body.password.v) >= 6
        /\ NormalizeEmail(calls[i].body.email.v) = key}
RegisteredKeys == {NormalizeEmail(e) : e \in EmailStrings}

\* C19: of two or more register or signup requests whose emails normalise
\* to one value, once all are answered exactly one was answered with
\* success and every other with "User already exists.", and the store holds
\* one identity of that email, with the hash of the request that succeeded
C19_OneRegistrationWins ==
    \A key \in RegisteredKeys :
      LET S == Registering(key)
      IN (Cardinality(S) >= 2 /\ \A i \in S : calls[i].pc = "done") =>
           \E w \in S :
             /\ calls[w].resp.status = 200
             /\ calls[w].resp.body.success
             /\ \A i \in S \ {w} : calls[i].resp = UserExistsResponse
             /\ \E u \in users :
                   /\ {v \in users : v.email = key} = {u}
                   /\ u.password = calls[w].hash

\* two requests for one email were both hashed before either inserted: the
\* second was under way when the first was answered, and was refused
C19_Witness ==
    /\ Len(calls) = 2
    /\ \E key \in RegisteredKeys : Registering(key) = {1, 2}
    /\ calls[1].body.email # calls[2].body.email
    /\ ~calls[2].alone
    /\ calls[1].resp = UserExistsResponse
    /\ calls[2].resp.status = 200

\* a request whose steps no other request comes between is answered, and
\* leaves the store, as the handler taken whole
StepsComposeToOutcome ==
    \A k \in {"register", "signup"}, e \in EmailInputs, p \in RacePasswords :
      LET begun == SignupBegin(k, e, p, TRUE)
          hashed == IF begun.pc = "hash" THEN SignupHashed(begun, salts + 1)
                    ELSE begun
          salted == [CurrentStore EXCEPT
                       !.salts = IF begun.pc = "hash" /\ IsString(p)
                                 THEN @ + 1 ELSE @]
          whole == IF k = "register"
                   THEN RegisterOutcome(engine, CurrentStore, e, p)
                   ELSE SignupOutcome(engine, CurrentStore, e, p)
      IN IF hashed.pc = "insert"
         THEN LET o == SignupInserted(engine, salted, hashed)
              IN o.resp = whole.resp /\ o.store = whole.store
         ELSE hashed.resp = whole.resp /\ salted = whole.store

(***************************************************************************)
(* Claims about the stored flags of calendar events.                       *)
(***************************************************************************)
StoredFlag(v) == v \in {Num(0), Num(1)}

\* C23: every stored calendar event holds 0 or 1 in is_all_day, is_online
\* and repeat_weekly
C23_StoredFlagsAreZeroOrOne ==
    \A row \in tables["calendar_events"] :
        \A c \in FlagColumns : StoredFlag(row[c])

\* a row just written through /events holds 0 or 1 in each flag
EventWriteStoresZeroOrOne ==
    EventWritten =>
      \A row \in RowsWithId(tables, "calendar_events", WrittenId) :
        \A c \in FlagColumns : StoredFlag(row[c])

\* is_all_day and is_online, which the legacy statements do not name, hold
\* 0 or 1 in every row
UnnamedFlagsAreZeroOrOne ==
    \A row \in tables["calendar_events"] :
        StoredFlag(row.is_all_day) /\ StoredFlag(row.is_online)

(***************************************************************************)
(* Claims about the outcome the adapter reports to a handler.              *)
(***************************************************************************)
\* C21: a data statement that failed is never reported to its handler as a
\* success: a create that answers success has added one row to its table
C21_FailedStatementNotReportedAsSuccess ==
    [][(route' \in CreateRoutes /\ resp'.status = 200) =>
          Cardinality(tables'[TableOf(route')]) =
             Cardinality(tables[TableOf(route')]) + 1]_vars

\* under SQLite, and under PostgreSQL when no integer column is sent a text,
\* a create that answers success has added one row
TypedCreateSuccessAddsRow ==
    [][(/\ route' \in CreateRoutes
        /\ resp'.status = 200
        /\ Mistyped(engine, TableOf(route'), req'.body) = {}) =>
          Cardinality(tables'[TableOf(route')]) =
             Cardinality(tables[TableOf(route')]) + 1]_vars

\* a refused integer whose message does not hold 'already exists' reaches
\* the handler, which answers 500
RefusedIntegerAnswered500 ==
    (/\ route \in CreateRoutes
     /\ \E c \in Mistyped(engine, TableOf(route), req.body) :
           req.body[c] # Text("already exists")
     /\ \A f \in Required(route) : Supplied(f)) => resp.status = 500

(***************************************************************************)
(* Claims about the responses of a request.                                *)
(***************************************************************************)
Fetches == {i \in DOMAIN calls : calls[i].kind = "fetch" /\ calls[i].pc = "done"}

StoredListsParse ==
    \A row \in tables["profiles"] :
        Truthy(row.degrees) => ~JsonParse(row.degrees).thrown

\* while every stored list text parses, a settled request has one response
\* and one invocation of its callback, and a failed SELECT is answered 500
ParsableFetchAnsweredOnce ==
    [][StoredListsParse =>
          \A i \in DOMAIN calls' :
              (calls'[i].kind = "fetch" /\ calls'[i].pc = "done") =>
                  /\ calls'[i].answers = 1
                  /\ calls'[i].invoked = 1
                  /\ calls'[i].failed => calls'[i].resp.status = 500]_vars

\* a fetch changes no table
FetchChangesNoTable ==
    [][calls' # calls /\ (\E i \in DOMAIN calls' :
                             calls'[i].kind = "fetch"
                             /\ (i \notin DOMAIN calls \/ calls[i] # calls'[i]))
          => tables' = tables]_vars

\* JSON.parse gives back the list that JSON.stringify was given, so the
\* texts that POST /profile stores parse
SavedListsParse ==
    \A i \in DOMAIN calls :
        (calls[i].kind = "save" /\ calls[i].resp.status = 200) =>
            \A row \in calls[i].wrote :
                JsonParse(row.degrees) =
                    Parsed(OrDefault(Field(calls[i].body, "degrees"), JsArray(<<>>)))

\* no request stores a list text that does not parse
RequestsStoreParsableLists == [][StoredListsParse => StoredListsParse']_vars

\* a stored text that is not JSON leaves a request without a response
\* under SQLite, and has the callback invoked twice under PostgreSQL
UnansweredFetchWitness ==
    \E i \in Fetches : calls[i].answers = 0 /\ engine = "sqlite"
CallbackInvokedTwiceWitness ==
    \E i \in Fetches : calls[i].invoked = 2 /\ calls[i].answers = 1 /\ engine = "pg"

====
